---- MODULE Spec2Model ----
(***************************************************************************)
(* A model of the evernode-js-client ledger client.                        *)
(*                                                                         *)
(*   - XrplApi transport hand-off lock (#acquireClient / #acquireConnection)*)
(*     with concurrent requests and transport swaps;                       *)
(*   - XrplApi.submitAndWait / submitMultisignedAndWait with the finality   *)
(*     wait loop (#waitForFinalTransactionOutcome) and #prepareResponse;    *)
(*   - HostClient.#submitWithRetry.                                         *)
(*                                                                         *)
(* JavaScript runs one job at a time, so the code between two `await`s is  *)
(* one atomic step; every `await` is a point where other jobs may run.     *)
(* Each component has its own specification over the shared variables.     *)
(***************************************************************************)
EXTENDS Integers, Sequences, FiniteSets, TLC

\* ------------------------------------------------------------------ bounds
\* Concurrent callers of #handleClientRequest / #getLedgerIndex.
NumRequests == 2
\* Concurrent callers of #setXrplClient / disconnect.
NumSwappers == 2
\* Distinct xrpl.Client objects a 'connected' handler may swap in.
NumClients == 2

Requests == 1..NumRequests
Swappers == 1..NumSwappers
Clients == 1..NumClients

\* The value of #client before the first #setXrplClient (undefined).
NoClient == 0

VARIABLES
    \* ---- XrplApi fields (host-client.js 1018-1029)
    client,                     \* #client
    isConnectionAcquired,       \* #isConnectionAcquired
    isClientAcquired,           \* #isClientAcquired
    isPermanentlyDisconnected,  \* #isPermanentlyDisconnected
    \* ---- positions of the concurrent calls on the lock
    reqPc,                      \* each request call's position
    reqOn,                      \* the transport a request was issued on
    swapPc,                     \* each swap call's position
    swapOp,                     \* "set" (#setXrplClient) or "disconnect"
    swapArg,                    \* the client passed to #setXrplClient
    \* ---- one call of submitAndWait / submitMultisignedAndWait
    sPc,                        \* the call's position
    sLastLedger,                \* tx.LastLedgerSequence (Null when absent)
    sSubmission,                \* submissionResult, the 'submit' response
    sLatest,                    \* latestLedger last read by the wait loop
    sResult,                    \* the validated 'tx' response the wait returned
    sOutcome,                   \* what the call returned or threw
    sent,                       \* the commands issued to the transport
    \* ---- the ledger network as the transport shows it
    netLedger,                  \* index of the last closed ledger
    txValidated,                \* the transaction is in a validated ledger
    txLedger,                   \* the ledger that holds it
    txMeta,                     \* its metadata (engine result, hook trace)
    \* ---- one call of HostClient.#submitWithRetry
    rPc,                        \* the call's position
    rOptions,                   \* options: maxRetryAttempts, feeUplift
    attempt,                    \* local `attempt`
    feeUplift,                  \* local `feeUplift`
    rCalls,                     \* the feeUplift passed to each callback invocation
    rErrors,                    \* the error each failed invocation threw
    rOutcome,                   \* what the call returned or threw
    \* ---- one call of XrplApi.#requestWithPaging
    pgPc,                       \* the call's position
    pgLimit,                    \* requestObj.limit as the caller passed it
    pgCount,                    \* local `count`
    pgResp,                     \* local `resp`, the last response
    pgRes,                      \* local `res`, the accumulated items
    pgRequests,                 \* the limit and marker of every request issued
    pgPages,                    \* every response received
    pgOutcome,                  \* what the call returned or threw
    \* ---- one point request (isAccountExists, getLedgerEntry, getAccountInfo)
    ptPc,                       \* the call's position
    ptOp,                       \* which method was called
    ptError,                    \* the error the transport rejected with
    ptOutcome,                  \* what the call returned or threw
    \* ---- XrplApi connection manager
    isPrimaryServerConnected,   \* #isPrimaryServerConnected
    isFallbackServerConnected,  \* #isFallbackServerConnected
    addressSubscriptions,       \* the addresses in #addressSubscriptions
    ledgerIndex,                \* this.ledgerIndex (Null before the first sync)
    xrplClients,                \* the xrpl.Client objects created so far
    sessions,                   \* the calls of #connectXrplClient and their loops
    dPc,                        \* the caller's disconnect() call
    subscriber,                 \* the caller's subscribeToAddress() call
    \* ---- the servers as the network shows them
    reachable,                  \* which servers accept a connection
    drops,                      \* links the network has dropped so far
    \* ---- the 'transaction' event handler and its subscriptions
    subscriptionList,           \* #addressSubscriptions: the entries, in order
    scans,                      \* handler runs suspended in an offer lookup
    delivered,                  \* what the listener run that has just returned did
    called,                     \* the subscribe / unsubscribe call just made
    \* ---- EvernodeHook: the payment listener of subscribe()
    hookTx,                     \* the transaction the listener is given
    hookEvent,                  \* what #extractEvernodeHookEvent made of it
    \* ---- one call of HostClient.mintLease or offerLease
    leasePc,                    \* the call's position
    leaseOp,                    \* which of the two was called
    leaseToken,                 \* the ledger holds the lease's URIToken
    leaseOutcome,               \* what the call returned or threw
    \* ---- one call of HostClient.register from the sell-offer wait on
    regPc,                      \* the call's position
    attempts,                   \* local `attempts`
    sellOffer,                  \* local `sellOffer` is set
    offerLedgerIndex,           \* local `offerLedgerIndex`
    regOutcome,                 \* what the call returned or threw
    registryOffer,              \* the registry holds the matching sell offer
    \* ---- the reconnect loops over a list of fallback servers
    loopCalls,                  \* the calls of #connectXrplClient and their loops
    links,                      \* the servers a listening client is connected to
    listReachable,              \* which servers accept a connection
    linkDrops,                  \* the links the network has dropped
    \* ---- one call of EvernodeClient.requestAudit
    audPc,                      \* what the call awaits
    audSettled,                 \* how the returned promise settled
    startingLedger,             \* local `startingLedger`
    hookCheck,                  \* the hook has written a check to the account
    cashed                      \* cashCheck has succeeded

lockVars == <<client, isConnectionAcquired, isClientAcquired, isPermanentlyDisconnected,
              reqPc, reqOn, swapPc, swapOp, swapArg>>

submitVars == <<sPc, sLastLedger, sSubmission, sLatest, sResult, sOutcome, sent,
                netLedger, txValidated, txLedger, txMeta>>

retryVars == <<rPc, rOptions, attempt, feeUplift, rCalls, rErrors, rOutcome>>

pagingVars == <<pgPc, pgLimit, pgCount, pgResp, pgRes, pgRequests, pgPages, pgOutcome>>

pointVars == <<ptPc, ptOp, ptError, ptOutcome>>

gatewayVars == <<pagingVars, pointVars>>

routerVars == <<subscriptionList, scans, delivered, called>>

hookVars == <<hookTx, hookEvent>>

\* The parts of the model outside XrplApi's lock, requests, connection
\* manager and transaction listener.
leaseVars == <<leasePc, leaseOp, leaseToken, leaseOutcome>>

registerVars == <<regPc, attempts, sellOffer, offerLedgerIndex, regOutcome, registryOffer>>

loopVars == <<loopCalls, links, listReachable, linkDrops>>

auditVars == <<audPc, audSettled, startingLedger, hookCheck, cashed>>

lateVars == <<hookVars, leaseVars, registerVars, loopVars, auditVars>>

connVars == <<isPrimaryServerConnected, isFallbackServerConnected, addressSubscriptions,
              ledgerIndex, xrplClients, sessions, dPc, subscriber, reachable, drops,
              routerVars, lateVars>>

vars == <<lockVars, submitVars, retryVars, gatewayVars, connVars>>

notLockVars == <<submitVars, retryVars, gatewayVars, connVars>>

\* ------------------------------------------------ transport hand-off lock

\* #acquireClient's loop condition: the caller has to wait.
AcquireClientBlocked == isClientAcquired \/ isConnectionAcquired

\* #acquireConnection's loop condition: the caller has to wait.
AcquireConnectionBlocked == isClientAcquired

LockInit ==
    /\ client = NoClient
    /\ isConnectionAcquired = FALSE
    /\ isClientAcquired = FALSE
    /\ isPermanentlyDisconnected = FALSE
    /\ reqPc = [r \in Requests |-> "idle"]
    /\ reqOn = [r \in Requests |-> NoClient]
    /\ swapPc = [s \in Swappers |-> "idle"]
    \* no swap call is running: its operation and argument are unset
    /\ swapOp = [s \in Swappers |-> "none"]
    /\ swapArg = [s \in Swappers |-> NoClient]

\* A call of #handleClientRequest or #getLedgerIndex: #acquireConnection runs
\* synchronously up to its first await; it takes the lock at once when the
\* loop condition is false, else it sleeps 100 ms.
RequestCall(r) ==
    /\ reqPc[r] = "idle"
    /\ IF AcquireConnectionBlocked
         THEN /\ reqPc' = [reqPc EXCEPT ![r] = "waitConnection"]
              /\ UNCHANGED isConnectionAcquired
         ELSE /\ reqPc' = [reqPc EXCEPT ![r] = "acquired"]
              /\ isConnectionAcquired' = TRUE
    /\ UNCHANGED <<client, isClientAcquired, isPermanentlyDisconnected, reqOn,
                   swapPc, swapOp, swapArg>>
    /\ UNCHANGED notLockVars

\* #acquireConnection wakes from its sleep and finds the loop condition false.
\* (A wake-up that finds it true sleeps again and changes nothing.)
AcquireConnectionPoll(r) ==
    /\ reqPc[r] = "waitConnection"
    /\ ~AcquireConnectionBlocked
    /\ reqPc' = [reqPc EXCEPT ![r] = "acquired"]
    /\ isConnectionAcquired' = TRUE
    /\ UNCHANGED <<client, isClientAcquired, isPermanentlyDisconnected, reqOn,
                   swapPc, swapOp, swapArg>>
    /\ UNCHANGED notLockVars

\* The continuation after `await this.#acquireConnection()`: the request is
\* invoked on #client. With #client undefined the call throws inside the try
\* and the catch releases the connection.
ClientRequest(r) ==
    /\ reqPc[r] = "acquired"
    /\ IF client = NoClient
         THEN /\ reqPc' = [reqPc EXCEPT ![r] = "idle"]
              /\ isConnectionAcquired' = FALSE
              /\ UNCHANGED reqOn
         ELSE /\ reqPc' = [reqPc EXCEPT ![r] = "inflight"]
              /\ reqOn' = [reqOn EXCEPT ![r] = client]
              /\ UNCHANGED isConnectionAcquired
    /\ UNCHANGED <<client, isClientAcquired, isPermanentlyDisconnected,
                   swapPc, swapOp, swapArg>>
    /\ UNCHANGED notLockVars

\* The transport resolves or rejects the request: both paths call
\* #releaseConnection and leave the call.
RequestSettle(r) ==
    /\ reqPc[r] = "inflight"
    /\ reqPc' = [reqPc EXCEPT ![r] = "idle"]
    /\ reqOn' = [reqOn EXCEPT ![r] = NoClient]
    /\ isConnectionAcquired' = FALSE
    /\ UNCHANGED <<client, isClientAcquired, isPermanentlyDisconnected,
                   swapPc, swapOp, swapArg>>
    /\ UNCHANGED notLockVars

\* #acquireClient as run synchronously by a new call of the swap side.
SwapEnter(s, op, c) ==
    /\ swapOp' = [swapOp EXCEPT ![s] = op]
    /\ swapArg' = [swapArg EXCEPT ![s] = c]
    /\ IF AcquireClientBlocked
         THEN /\ swapPc' = [swapPc EXCEPT ![s] = "waitClient"]
              /\ UNCHANGED isClientAcquired
         ELSE /\ swapPc' = [swapPc EXCEPT ![s] = "holding"]
              /\ isClientAcquired' = TRUE
    /\ UNCHANGED <<client, isConnectionAcquired, isPermanentlyDisconnected, reqPc, reqOn>>

\* The 'connected' handler of client c calls #setXrplClient(c).
SetXrplClientCall(s, c) ==
    /\ swapPc[s] = "idle"
    /\ SwapEnter(s, "set", c)
    /\ UNCHANGED notLockVars

\* A caller calls disconnect().
DisconnectCall(s) ==
    /\ swapPc[s] = "idle"
    /\ SwapEnter(s, "disconnect", NoClient)
    /\ UNCHANGED notLockVars

\* #acquireClient wakes from its sleep and finds both flags clear.
AcquireClientPoll(s) ==
    /\ swapPc[s] = "waitClient"
    /\ ~AcquireClientBlocked
    /\ swapPc' = [swapPc EXCEPT ![s] = "holding"]
    /\ isClientAcquired' = TRUE
    /\ UNCHANGED <<client, isConnectionAcquired, isPermanentlyDisconnected, reqPc, reqOn,
                   swapOp, swapArg>>
    /\ UNCHANGED notLockVars

\* #releaseClient and the end of the swap call.
SwapLeave(s) ==
    /\ swapPc' = [swapPc EXCEPT ![s] = "idle"]
    /\ swapOp' = [swapOp EXCEPT ![s] = "none"]
    /\ swapArg' = [swapArg EXCEPT ![s] = NoClient]
    /\ isClientAcquired' = FALSE

\* #setXrplClient after #acquireClient: with an earlier client it first awaits
\* removeAllListeners(); without one it assigns and releases at once.
SetXrplClientBody(s) ==
    /\ swapPc[s] = "holding"
    /\ swapOp[s] = "set"
    /\ IF client # NoClient
         THEN /\ swapPc' = [swapPc EXCEPT ![s] = "removing"]
              /\ UNCHANGED <<client, isClientAcquired, swapOp, swapArg>>
         ELSE /\ client' = swapArg[s]
              /\ SwapLeave(s)
    /\ UNCHANGED <<isConnectionAcquired, isPermanentlyDisconnected, reqPc, reqOn>>
    /\ UNCHANGED notLockVars

\* removeAllListeners() returned: the new client is assigned and the lock
\* released; had it thrown, the catch releases the lock and keeps the client.
SetXrplClientAssign(s) ==
    /\ swapPc[s] = "removing"
    /\ \E threw \in BOOLEAN :
          client' = IF threw THEN client ELSE swapArg[s]
    /\ SwapLeave(s)
    /\ UNCHANGED <<isConnectionAcquired, isPermanentlyDisconnected, reqPc, reqOn>>
    /\ UNCHANGED notLockVars

\* disconnect() after #acquireClient: sets the permanent flag, then closes a
\* connected client (awaited) or releases at once; with #client undefined the
\* isConnected() call throws and the catch releases.
DisconnectBody(s) ==
    /\ swapPc[s] = "holding"
    /\ swapOp[s] = "disconnect"
    /\ isPermanentlyDisconnected' = TRUE
    /\ \E connected \in BOOLEAN :
          IF client # NoClient /\ connected
            THEN /\ swapPc' = [swapPc EXCEPT ![s] = "disconnecting"]
                 /\ UNCHANGED <<isClientAcquired, swapOp, swapArg>>
            ELSE SwapLeave(s)
    /\ UNCHANGED <<client, isConnectionAcquired, reqPc, reqOn>>
    /\ UNCHANGED notLockVars

\* client.disconnect() settled (a rejection is swallowed by .catch).
DisconnectDone(s) ==
    /\ swapPc[s] = "disconnecting"
    /\ SwapLeave(s)
    /\ UNCHANGED <<client, isConnectionAcquired, isPermanentlyDisconnected, reqPc, reqOn>>
    /\ UNCHANGED notLockVars

LockNext ==
    \/ \E r \in Requests : RequestCall(r)
    \/ \E r \in Requests : AcquireConnectionPoll(r)
    \/ \E r \in Requests : ClientRequest(r)
    \/ \E r \in Requests : RequestSettle(r)
    \/ \E s \in Swappers, c \in Clients : SetXrplClientCall(s, c)
    \/ \E s \in Swappers : DisconnectCall(s)
    \/ \E s \in Swappers : AcquireClientPoll(s)
    \/ \E s \in Swappers : SetXrplClientBody(s)
    \/ \E s \in Swappers : SetXrplClientAssign(s)
    \/ \E s \in Swappers : DisconnectBody(s)
    \/ \E s \in Swappers : DisconnectDone(s)

\* ------------------------------------------------------- JavaScript values

\* null / undefined where a number is expected (tx.LastLedgerSequence,
\* options.maxRetryAttempts, options.feeUplift).
Null == -1

\* A thrown or returned string.
Str(t) == [tag |-> "string", text |-> t]

\* A thrown or returned object; o maps its keys to their values.
Obj(o) == [tag |-> "object", obj |-> o]

\* The object literal { ...a, ...b }: the keys of both, b's value where both
\* have the key.
Spread(a, b) ==
    [k \in DOMAIN a \cup DOMAIN b |-> IF k \in DOMAIN b THEN b[k] ELSE a[k]]

\* ------------------------------------------- submission and finality wait

\* Highest ledger index the network reaches.
MaxLedger == 4

\* The hash of the submitted transaction (submissionResult.result.tx_json.hash).
TxHash == "TXHASH"

\* What a 'submit' / 'submit_multisigned' request resolves with: the
\* transport's response envelope around the provisional engine result.
SubmissionResults ==
    { [id |-> 1, type |-> "response",
       result |-> [engine_result |-> er, tx_json |-> [hash |-> TxHash]]] :
      er \in {"tesSUCCESS", "terQUEUED"} }

\* What a rejected request rejects with.
TransportErrors == { [name |-> "DisconnectedError"], [name |-> "TimeoutError"] }

\* A hex string is a sequence of hex digits (0..15).
\* One entry of meta.HookExecutions: return code 0x1A, return string "AB\0\0".
HookExecutionSample ==
    [HookExecution |-> [HookResult |-> 3,
                        HookReturnCode |-> <<1, 10>>,
                        HookReturnString |-> <<4, 1, 4, 2, 0, 0, 0, 0>>]]

\* The metadata a validated transaction may carry.
Metas ==
    { [TransactionResult |-> c] : c \in {"tesSUCCESS", "tecHOOK_REJECTED"} }
    \cup
    { [TransactionResult |-> c, HookExecutions |-> <<HookExecutionSample>>] :
      c \in {"tesSUCCESS", "tecHOOK_REJECTED"} }

\* The result of the 'tx' request for the transaction (getTxnInfo's value).
TxResponse == [hash |-> TxHash, validated |-> txValidated, meta |-> txMeta]

\* parseInt(h, 16) of a hex string.
RECURSIVE ParseIntHex(_)
ParseIntHex(h) ==
    IF h = <<>> THEN 0
    ELSE 16 * ParseIntHex(SubSeq(h, 1, Len(h) - 1)) + h[Len(h)]

\* TransactionHelper.hexToASCII: one character code per pair of hex digits.
HexToASCII(h) == [i \in 1..(Len(h) \div 2) |-> 16 * h[2 * i - 1] + h[2 * i]]

\* .replace(/\x00+$/, ''): the trailing NUL characters removed.
RECURSIVE TrimTrailingNul(_)
TrimTrailingNul(t) ==
    IF t # <<>> /\ t[Len(t)] = 0 THEN TrimTrailingNul(SubSeq(t, 1, Len(t) - 1)) ELSE t

\* The map callback of #prepareResponse over meta.HookExecutions.
DecodeHookExecution(o) ==
    [result |-> o.HookExecution.HookResult,
     returnCode |-> ParseIntHex(o.HookExecution.HookReturnCode),
     message |-> TrimTrailingNul(HexToASCII(o.HookExecution.HookReturnString))]

\* The expiry test letting one more ledger pass before it fires.
ExpiredOneLate(lastLedger, latestLedger) == lastLedger + 1 < latestLedger

\* No expiry test at all.
ExpiredNever(lastLedger, latestLedger) == FALSE

\* #waitForFinalTransactionOutcome's expiry test.
Expired(lastLedger, latestLedger) == lastLedger < latestLedger

\* The object thrown on expiry.
ExpiredError(lastLedger, latestLedger, submissionResult) ==
    Spread([status |-> "TOOK_LONG", error |-> <<latestLedger, lastLedger>>],
           submissionResult)

\* #prepareResponse returning its result object whatever the engine result.
PrepareResponseKindReturnOnly(code) == "return"

\* Whether #prepareResponse returns or throws its result object.
PrepareResponseKind(code) == IF code = "tesSUCCESS" THEN "return" ELSE "throw"

\* The object #prepareResponse returns or throws for the validated response.
PrepareResponseValue(result) ==
    LET txResult == [id |-> result.hash,
                     code |-> result.meta.TransactionResult,
                     details |-> result]
    IN  IF "HookExecutions" \in DOMAIN result.meta
          THEN Spread(txResult,
                      [hookExecutionResult |->
                          [i \in 1..Len(result.meta.HookExecutions) |->
                              DecodeHookExecution(result.meta.HookExecutions[i])]])
          ELSE txResult

\* #prepareResponse once the wait has returned the validated response.
PrepareResponse(result) ==
    [kind |-> PrepareResponseKind(result.meta.TransactionResult),
     value |-> Obj(PrepareResponseValue(result))]

Throw(v) == [kind |-> "throw", value |-> v]

\* The string thrown when lastLedger == null.
MissingLastLedgerSequence ==
    "Transaction must contain a LastLedgerSequence value for reliable submission."

\* No validated response returned (yet).
NoResult == [validated |-> FALSE]

SubmitInit ==
    /\ sPc = "idle"
    /\ sLastLedger = Null
    /\ sSubmission = [id |-> 0]
    /\ sLatest = 0
    /\ sResult = NoResult
    /\ sOutcome = [kind |-> "none"]
    /\ sent = {}
    /\ netLedger = 1
    /\ txValidated = FALSE
    /\ txLedger = 0
    /\ txMeta = [TransactionResult |-> "none"]

\* The lock fields outside the request in progress, and the retry wrapper.
submitFrame == <<client, isClientAcquired, isPermanentlyDisconnected,
                 reqPc, reqOn, swapPc, swapOp, swapArg, retryVars, gatewayVars,
                 connVars>>

\* submitAndWait(tx, blob) / submitMultisignedAndWait(tx): the first thing
\* either does is #handleClientRequest with the submit command.
SubmitAndWaitCall(lastLedger, command) ==
    /\ sPc = "idle"
    /\ client # NoClient
    /\ ~AcquireConnectionBlocked
    /\ sLastLedger' = lastLedger
    /\ isConnectionAcquired' = TRUE
    /\ sent' = sent \cup {command}
    /\ sPc' = "awaitSubmit"
    /\ UNCHANGED <<sSubmission, sLatest, sResult, sOutcome,
                   netLedger, txValidated, txLedger, txMeta, submitFrame>>

\* The submit request rejects: #handleClientRequest releases and rethrows.
SubmitRejected(e) ==
    /\ sPc = "awaitSubmit"
    /\ isConnectionAcquired' = FALSE
    /\ sOutcome' = Throw(Obj(e))
    /\ sPc' = "done"
    /\ UNCHANGED <<sLastLedger, sSubmission, sLatest, sResult, sent,
                   netLedger, txValidated, txLedger, txMeta, submitFrame>>

\* The submit request resolves: #prepareResponse calls
\* #waitForFinalTransactionOutcome, which throws when lastLedger == null and
\* otherwise sleeps LEDGER_CLOSE_TIME.
SubmitResolved(r) ==
    /\ sPc = "awaitSubmit"
    /\ isConnectionAcquired' = FALSE
    /\ sSubmission' = r
    /\ IF sLastLedger = Null
         THEN /\ sOutcome' = Throw(Str(MissingLastLedgerSequence))
              /\ sPc' = "done"
         ELSE /\ sPc' = "sleeping"
              /\ UNCHANGED sOutcome
    /\ UNCHANGED <<sLastLedger, sLatest, sResult, sent,
                   netLedger, txValidated, txLedger, txMeta, submitFrame>>

\* The sleep ends and #getLedgerIndex is called.
WaitWake ==
    /\ sPc = "sleeping"
    /\ ~AcquireConnectionBlocked
    /\ isConnectionAcquired' = TRUE
    /\ sent' = sent \cup {"getLedgerIndex"}
    /\ sPc' = "awaitIndex"
    /\ UNCHANGED <<sLastLedger, sSubmission, sLatest, sResult, sOutcome,
                   netLedger, txValidated, txLedger, txMeta, submitFrame>>

\* #getLedgerIndex rejects: released and rethrown.
IndexRejected(e) ==
    /\ sPc = "awaitIndex"
    /\ isConnectionAcquired' = FALSE
    /\ sOutcome' = Throw(Obj(e))
    /\ sPc' = "done"
    /\ UNCHANGED <<sLastLedger, sSubmission, sLatest, sResult, sent,
                   netLedger, txValidated, txLedger, txMeta, submitFrame>>

\* #getLedgerIndex resolves with the network's index: on expiry the wait
\* throws, otherwise getTxnInfo issues the 'tx' request.
IndexResolved ==
    /\ sPc = "awaitIndex"
    /\ sLatest' = netLedger
    /\ IF Expired(sLastLedger, netLedger)
         THEN /\ isConnectionAcquired' = FALSE
              /\ sOutcome' = Throw(Obj(ExpiredError(sLastLedger, netLedger, sSubmission)))
              /\ sPc' = "done"
              /\ UNCHANGED sent
         ELSE /\ isConnectionAcquired' = TRUE
              /\ sent' = sent \cup {"tx"}
              /\ sPc' = "awaitTx"
              /\ UNCHANGED sOutcome
    /\ UNCHANGED <<sLastLedger, sSubmission, sResult,
                   netLedger, txValidated, txLedger, txMeta, submitFrame>>

\* The 'tx' request rejects with txnNotFound: the wait starts over.
TxNotFound ==
    /\ sPc = "awaitTx"
    /\ ~txValidated
    /\ isConnectionAcquired' = FALSE
    /\ sPc' = "sleeping"
    /\ UNCHANGED <<sLastLedger, sSubmission, sLatest, sResult, sOutcome, sent,
                   netLedger, txValidated, txLedger, txMeta, submitFrame>>

\* The 'tx' request rejects with another error: a message string is thrown.
TxRejected(e) ==
    /\ sPc = "awaitTx"
    /\ isConnectionAcquired' = FALSE
    /\ sOutcome' = Throw([tag |-> "string", text |-> "tx lookup failed",
                           message |-> e.name, preliminary |-> sSubmission])
    /\ sPc' = "done"
    /\ UNCHANGED <<sLastLedger, sSubmission, sLatest, sResult, sent,
                   netLedger, txValidated, txLedger, txMeta, submitFrame>>

\* The 'tx' request resolves: a validated response ends the wait and
\* #prepareResponse builds the outcome; otherwise the wait starts over.
TxResolved ==
    /\ sPc = "awaitTx"
    /\ isConnectionAcquired' = FALSE
    /\ IF TxResponse.validated
         THEN /\ sResult' = TxResponse
              /\ sOutcome' = PrepareResponse(TxResponse)
              /\ sPc' = "done"
         ELSE /\ sPc' = "sleeping"
              /\ UNCHANGED <<sResult, sOutcome>>
    /\ UNCHANGED <<sLastLedger, sSubmission, sLatest, sent,
                   netLedger, txValidated, txLedger, txMeta, submitFrame>>

\* The network closes a ledger that does not hold the transaction.
LedgerClose ==
    /\ netLedger < MaxLedger
    /\ netLedger' = netLedger + 1
    /\ UNCHANGED <<sPc, sLastLedger, sSubmission, sLatest, sResult, sOutcome, sent,
                   txValidated, txLedger, txMeta, isConnectionAcquired, submitFrame>>

\* The network closes a ledger that holds the submitted transaction; the
\* ledger's index is at most the transaction's LastLedgerSequence.
LedgerCloseWithTx(meta) ==
    /\ netLedger < MaxLedger
    /\ sPc \notin {"idle", "awaitSubmit"}
    /\ ~txValidated
    /\ sLastLedger = Null \/ netLedger + 1 <= sLastLedger
    /\ netLedger' = netLedger + 1
    /\ txValidated' = TRUE
    /\ txLedger' = netLedger + 1
    /\ txMeta' = meta
    /\ UNCHANGED <<sPc, sLastLedger, sSubmission, sLatest, sResult, sOutcome, sent,
                   isConnectionAcquired, submitFrame>>

SubmitNext ==
    \/ \E l \in {Null} \cup (1..MaxLedger), c \in {"submit", "submit_multisigned"} :
          SubmitAndWaitCall(l, c)
    \/ \E e \in TransportErrors : SubmitRejected(e)
    \/ \E r \in SubmissionResults : SubmitResolved(r)
    \/ WaitWake
    \/ \E e \in TransportErrors : IndexRejected(e)
    \/ IndexResolved
    \/ TxNotFound
    \/ \E e \in TransportErrors : TxRejected(e)
    \/ TxResolved
    \/ LedgerClose
    \/ \E m \in Metas : LedgerCloseWithTx(m)

\* ------------------------------------------------- HostClient.#submitWithRetry

\* Largest options.maxRetryAttempts a caller passes.
MaxRetryAttempts == 3

\* The fee increment a caller passes as options.feeUplift when it passes one
\* other than 0.
FeeUpliftStep == 5

\* undefined where a string is expected (e.code, e.status).
Undefined == "undefined"

\* The options a caller passes: each field absent or a non-negative integer.
RetryOptions ==
    [maxRetryAttempts : {Null} \cup (0..MaxRetryAttempts),
     feeUplift : {Null, 0, FeeUpliftStep}]

\* What the submission callback rejects with.
CallbackErrors ==
    [code : {"tecDUPLICATE", "tefPAST_SEQ", "tefALREADY", "tecPATH_DRY", Undefined},
     status : {"TOOK_LONG", Undefined}]

\* (options?.maxRetryAttempts || 1): absent and 0 are both falsy.
MaxAttempts(options) ==
    IF options.maxRetryAttempts \in {Null, 0} THEN 1 ELSE options.maxRetryAttempts

\* (options?.feeUplift || 0)
FeeUpliftOption(options) ==
    IF options.feeUplift = Null THEN 0 ELSE options.feeUplift

\* The terminal codes with tefALREADY left out.
IsTerminalCodeWithoutAlready(e) == e.code \in {"tecDUPLICATE", "tefPAST_SEQ"}

\* The error codes the catch block rethrows at once.
IsTerminalCode(e) == e.code \in {"tecDUPLICATE", "tefPAST_SEQ", "tefALREADY"}

\* The catch block's first test without the attempt bound.
ShouldRethrowTerminalOnly(att, maxAttempts, e) == IsTerminalCode(e)

\* The catch block's first test: rethrow e.
ShouldRethrow(att, maxAttempts, e) == att = maxAttempts \/ IsTerminalCode(e)

\* The fee uplift raised after every failure, whatever its status.
NextFeeUpliftAnyFailure(fee, e, options) == fee + FeeUpliftOption(options)

\* The catch block's second test: the fee uplift carried into the next attempt.
NextFeeUplift(fee, e, options) ==
    IF e.status = "TOOK_LONG" THEN fee + FeeUpliftOption(options) ELSE fee

RetryInit ==
    /\ rPc = "idle"
    /\ rOptions = [maxRetryAttempts |-> Null, feeUplift |-> Null]
    /\ attempt = 0
    /\ feeUplift = 0
    /\ rCalls = <<>>
    /\ rErrors = <<>>
    /\ rOutcome = [kind |-> "none"]

\* The while test and what follows it up to the await: the next invocation of
\* the callback, or the end of the loop (the function returns undefined).
LoopHead(att, fee, maxAttempts) ==
    IF att <= maxAttempts
      THEN /\ attempt' = att + 1
           /\ rCalls' = Append(rCalls, fee)
           /\ rPc' = "calling"
           /\ UNCHANGED rOutcome
      ELSE /\ rOutcome' = [kind |-> "return", value |-> Str(Undefined)]
           /\ rPc' = "done"
           /\ UNCHANGED <<attempt, rCalls>>

\* #submitWithRetry(callback, options) up to the first invocation.
SubmitWithRetryCall(options) ==
    /\ rPc = "idle"
    /\ rOptions' = options
    /\ feeUplift' = 0
    /\ LoopHead(0, 0, MaxAttempts(options))
    /\ UNCHANGED <<rErrors, lockVars, submitVars, gatewayVars, connVars>>

\* The callback resolves: its value is returned.
CallbackResolved ==
    /\ rPc = "calling"
    /\ rOutcome' = [kind |-> "return", value |-> Str("callback result")]
    /\ rPc' = "done"
    /\ UNCHANGED <<rOptions, attempt, feeUplift, rCalls, rErrors, lockVars, submitVars, gatewayVars, connVars>>

\* The callback rejects with e: the catch block rethrows, or adjusts the fee
\* uplift and sleeps TX_RETRY_INTERVAL.
CallbackRejected(e) ==
    /\ rPc = "calling"
    /\ rErrors' = Append(rErrors, e)
    /\ IF ShouldRethrow(attempt, MaxAttempts(rOptions), e)
         THEN /\ rOutcome' = [kind |-> "throw", value |-> e]
              /\ rPc' = "done"
              /\ UNCHANGED feeUplift
         ELSE /\ feeUplift' = NextFeeUplift(feeUplift, e, rOptions)
              /\ rPc' = "retryWait"
              /\ UNCHANGED rOutcome
    /\ UNCHANGED <<rOptions, attempt, rCalls, lockVars, submitVars, gatewayVars, connVars>>

\* The retry delay ends: back to the while test.
RetryWake ==
    /\ rPc = "retryWait"
    /\ LoopHead(attempt, feeUplift, MaxAttempts(rOptions))
    /\ UNCHANGED <<rOptions, feeUplift, rErrors, lockVars, submitVars, gatewayVars, connVars>>

RetryNext ==
    \/ \E o \in RetryOptions : SubmitWithRetryCall(o)
    \/ CallbackResolved
    \/ \E e \in CallbackErrors : CallbackRejected(e)
    \/ RetryWake

\* ------------------------------------------- XrplApi.#requestWithPaging

\* Most pages the endpoint serves before it sends a page without a marker.
MaxPages == 3

\* Most items the endpoint puts on one page.
MaxPageItems == 2

MAX_PAGE_LIMIT == 400

\* requestObj.limit as callers pass it: absent, 0, below, at and above the
\* page cap.
CallerLimits == {Null, 0, 1, MAX_PAGE_LIMIT, MAX_PAGE_LIMIT + 1}

\* Math.min
Min(a, b) == IF a < b THEN a ELSE b

\* `!count`: undefined, null and 0 are falsy.
Falsy(count) == count = Null \/ count = 0

\* The page limit taken from the caller's count with no cap.
PageLimitUncapped(count) == IF Falsy(count) THEN MAX_PAGE_LIMIT ELSE count

\* requestObj.limit of the next request.
PageLimit(count) == IF Falsy(count) THEN MAX_PAGE_LIMIT ELSE Min(count, MAX_PAGE_LIMIT)

\* The loop test with its marker test left out.
ContinuePagingIgnoringMarker(count, checked, resp) == Falsy(count) \/ count > 0

\* The while test.
ContinuePaging(count, checked, resp) ==
    /\ Falsy(count) \/ count > 0
    /\ ~checked \/ resp.marker # Null

\* requestObj.marker of the next request: the last response's marker, or the
\* key deleted.
NextMarker(resp) == IF resp.marker # Null THEN resp.marker ELSE Null

\* res after a response when the items replace what was accumulated.
PushItemsReplacing(res, resp) == IF resp.hasItems THEN resp.items ELSE res

\* res after a response: its items are pushed when the response has the list.
PushItems(res, resp) == IF resp.hasItems THEN res \o resp.items ELSE res

\* `if (count) count -= requestObj.limit`
NextCount(count, limit) == IF Falsy(count) THEN count ELSE count - limit

\* The items of pages 1..n, in order (a page without the list has none).
RECURSIVE ItemsOf(_, _)
ItemsOf(pages, n) ==
    IF n = 0 THEN <<>>
    ELSE ItemsOf(pages, n - 1) \o (IF pages[n].hasItems THEN pages[n].items ELSE <<>>)

\* The sum of the limits of requests 1..n.
RECURSIVE LimitsOf(_, _)
LimitsOf(requests, n) ==
    IF n = 0 THEN 0 ELSE LimitsOf(requests, n - 1) + requests[n].limit

\* The pages the endpoint may answer a request with: a marker or none, and the
\* list absent, empty or holding the next items of the listing (no more than
\* the request's limit). The marker of page k is k; items are numbered in the
\* order the endpoint lists them.
PagesFor(limit, served, items) ==
    LET markers == IF served + 1 < MaxPages THEN {Null, served + 1} ELSE {Null}
    IN  { [marker |-> m, hasItems |-> FALSE, items |-> <<>>] : m \in markers }
          \cup { [marker |-> m, hasItems |-> TRUE, items |-> [j \in 1..n |-> items + j]] :
                    m \in markers, n \in 0..Min(limit, MaxPageItems) }

\* `resp` before the first response (undefined): no marker, no list.
NoResponse == [marker |-> Null, hasItems |-> FALSE, items |-> <<>>]

PagingInit ==
    /\ pgPc = "idle"
    /\ pgLimit = Null
    /\ pgCount = Null
    /\ pgResp = NoResponse
    /\ pgRes = <<>>
    /\ pgRequests = <<>>
    /\ pgPages = <<>>
    /\ pgOutcome = [kind |-> "none"]

\* The lock fields outside the request in progress, and the other calls.
pagingFrame == <<client, isClientAcquired, isPermanentlyDisconnected,
                 reqPc, reqOn, swapPc, swapOp, swapArg,
                 submitVars, retryVars, pointVars, connVars>>

\* The while test and the loop body up to the await: the next request is
\* issued through #handleClientRequest, or the function returns res.
PagingLoop(count, checked, resp, res) ==
    IF ContinuePaging(count, checked, resp)
      THEN /\ pgRequests' = Append(pgRequests,
                                   [limit |-> PageLimit(count), marker |-> NextMarker(resp)])
           /\ isConnectionAcquired' = TRUE
           /\ pgPc' = "awaiting"
           /\ UNCHANGED pgOutcome
      ELSE /\ pgOutcome' = [kind |-> "return", value |-> res]
           /\ pgPc' = "done"
           /\ UNCHANGED <<pgRequests, isConnectionAcquired>>

\* #requestWithPaging(requestObj, requestType) up to its first await.
RequestWithPagingCall(limit) ==
    /\ pgPc = "idle"
    /\ client # NoClient
    /\ ~AcquireConnectionBlocked
    /\ pgLimit' = limit
    /\ pgCount' = limit
    /\ PagingLoop(limit, FALSE, NoResponse, <<>>)
    /\ UNCHANGED <<pgResp, pgRes, pgPages, pagingFrame>>

\* The request resolves with a page: the items are pushed, count is lowered
\* and the loop goes round.
PageResolved(page) ==
    /\ pgPc = "awaiting"
    /\ pgResp' = page
    /\ pgPages' = Append(pgPages, page)
    /\ pgRes' = PushItems(pgRes, page)
    /\ pgCount' = NextCount(pgCount, pgRequests[Len(pgRequests)].limit)
    /\ IF ContinuePaging(pgCount', TRUE, page)
         THEN PagingLoop(pgCount', TRUE, page, pgRes')
         ELSE /\ isConnectionAcquired' = FALSE
              /\ pgOutcome' = [kind |-> "return", value |-> pgRes']
              /\ pgPc' = "done"
              /\ UNCHANGED pgRequests
    /\ UNCHANGED <<pgLimit, pagingFrame>>

\* The request rejects: #handleClientRequest releases and rethrows, and the
\* listing rejects with the same error.
PageRejected(e) ==
    /\ pgPc = "awaiting"
    /\ isConnectionAcquired' = FALSE
    /\ pgOutcome' = Throw(Obj(e))
    /\ pgPc' = "done"
    /\ UNCHANGED <<pgLimit, pgCount, pgResp, pgRes, pgRequests, pgPages, pagingFrame>>

\* The pages the endpoint may answer the request in flight with.
ServedPages ==
    IF pgPc = "awaiting"
      THEN PagesFor(pgRequests[Len(pgRequests)].limit, Len(pgPages),
                    Len(ItemsOf(pgPages, Len(pgPages))))
      ELSE {}

PagingNext ==
    \/ \E l \in CallerLimits : RequestWithPagingCall(l)
    \/ \E page \in ServedPages : PageResolved(page)
    \/ \E e \in TransportErrors : PageRejected(e)

\* ------------------------------------------------------- point requests

\* The methods modelled: two existence checks and a plain point request.
PointOps == {"isAccountExists", "getLedgerEntry", "getAccountInfo"}

\* What the transport rejects a request with: a rippled error carries
\* data.error, a connection-level error (timeout, not connected) has no data.
\* hasData tells whether e.data is defined; error is e.data.error.
PointErrors ==
    { [name |-> "RippledError", hasData |-> TRUE, error |-> c] :
          c \in {"actNotFound", "entryNotFound", "invalidParams"} }
      \cup { [name |-> "TimeoutError", hasData |-> FALSE, error |-> Undefined] }

\* Reading `e.data.error` when e.data is undefined.
TypeErrorNoData == [name |-> "TypeError", hasData |-> FALSE, error |-> Undefined]

\* isAccountExists' catch block.
IsAccountExistsCatch(e) ==
    IF ~e.hasData THEN Throw(Obj(TypeErrorNoData))
    ELSE IF e.error = "actNotFound" THEN [kind |-> "return", value |-> Str("false")]
    ELSE Throw(Obj(e))

\* getLedgerEntry's catch block: e?.data?.error
GetLedgerEntryCatch(e) ==
    IF e.hasData /\ e.error = "entryNotFound"
      THEN [kind |-> "return", value |-> Str("null")]
      ELSE Throw(Obj(e))

\* What the method makes of the response.
PointResult(op) ==
    CASE op = "isAccountExists" -> [kind |-> "return", value |-> Str("true")]
      [] op = "getLedgerEntry" -> [kind |-> "return", value |-> Str("node")]
      [] op = "getAccountInfo" -> [kind |-> "return", value |-> Str("account_data")]

\* What the method makes of a rejection.
PointCatch(op, e) ==
    CASE op = "isAccountExists" -> IsAccountExistsCatch(e)
      [] op = "getLedgerEntry" -> GetLedgerEntryCatch(e)
      [] op = "getAccountInfo" -> Throw(Obj(e))

\* No error was thrown by the transport.
NoError == [name |-> "none", hasData |-> FALSE, error |-> Undefined]

PointInit ==
    /\ ptPc = "idle"
    /\ ptOp = "none"
    /\ ptError = NoError
    /\ ptOutcome = [kind |-> "none"]

pointFrame == <<client, isClientAcquired, isPermanentlyDisconnected,
                reqPc, reqOn, swapPc, swapOp, swapArg,
                submitVars, retryVars, pagingVars, connVars>>

\* The method is called: #handleClientRequest takes the use-lock and issues
\* the request.
PointCall(op) ==
    /\ ptPc = "idle"
    /\ client # NoClient
    /\ ~AcquireConnectionBlocked
    /\ ptOp' = op
    /\ isConnectionAcquired' = TRUE
    /\ ptPc' = "awaiting"
    /\ UNCHANGED <<ptError, ptOutcome, pointFrame>>

\* The request resolves: #handleClientRequest releases and returns.
PointResolved ==
    /\ ptPc = "awaiting"
    /\ isConnectionAcquired' = FALSE
    /\ ptOutcome' = PointResult(ptOp)
    /\ ptPc' = "done"
    /\ UNCHANGED <<ptOp, ptError, pointFrame>>

\* The request rejects with e: #handleClientRequest releases and rethrows, and
\* the method's catch block, if it has one, runs.
PointRejected(e) ==
    /\ ptPc = "awaiting"
    /\ isConnectionAcquired' = FALSE
    /\ ptError' = e
    /\ ptOutcome' = PointCatch(ptOp, e)
    /\ ptPc' = "done"
    /\ UNCHANGED <<ptOp, pointFrame>>

\* The caller makes another call.
PointAgain ==
    /\ ptPc = "done"
    /\ ptPc' = "idle"
    /\ ptOp' = "none"
    /\ ptError' = NoError
    /\ ptOutcome' = [kind |-> "none"]
    /\ UNCHANGED <<isConnectionAcquired, pointFrame>>

PointNext ==
    \/ \E op \in PointOps : PointCall(op)
    \/ PointResolved
    \/ \E e \in PointErrors : PointRejected(e)
    \/ PointAgain

\* ------------------------------------------- XrplApi connection manager

\* Links the network drops (each starts one auto-reconnect).
MaxDrops == 1

\* xrpl.Client objects alive at one time.
MaxClientObjects == 3

\* Length of #fallbackServers.
NumFallbackServers == 1

\* Addresses the caller subscribes to.
NumAddresses == 1

\* The loop counters `attempt` and `round` are only compared with a bound of
\* 1 (or with none); they stop counting at this value.
CounterCap == 1

\* #primaryServer, and the servers of #fallbackServers by list position.
Primary == 0
FallbackServers == 1..NumFallbackServers
Servers == {Primary} \cup FallbackServers

ClientObjects == 1..MaxClientObjects
\* Call 1 of #connectXrplClient is connect()'s, the others are the
\* 'disconnected' handler's.
Sessions == 1..(MaxDrops + 1)
Addresses == 1..NumAddresses

\* options.autoReconnect ?? true
AutoReconnect == TRUE

\* An xrpl.Client: its server, its link, whether the listeners of
\* #initEventListeners are attached, whether its 'connected' handler waits in
\* #acquireClient, and the subscribe requests issued on it.
NoXrplClient ==
    [server |-> Primary, link |-> "unused", listening |-> FALSE, swap |-> FALSE,
     ledgerSub |-> FALSE, accounts |-> {}]

\* A call of #connectXrplClient: the primary loop (p), the fallback loop (f),
\* the function's own position (w) and its un-awaited ledger subscribe (l).
NoSession ==
    [kind |-> "none",
     pPc |-> "none", pAttempt |-> 0, pClient |-> NoClient,
     fPc |-> "none", fRound |-> 0, fServer |-> 0, fAttempt |-> 0, fClient |-> NoClient,
     wStage |-> "none", wWait |-> FALSE, wTarget |-> NoClient,
     lPc |-> "none", lTarget |-> NoClient]

\* The arguments #connectXrplClient passes to the loops.
MaxRoundsOf(kind) == IF kind = "connect" THEN 1 ELSE Null
AttemptsPerServerOf(kind) == IF kind = "connect" THEN 1 ELSE 3
\* A primary loop that is bounded in the 'disconnected' handler too.
MaxAttemptsAlwaysOne(kind) == 1

MaxAttemptsOf(kind) == IF kind = "connect" THEN 1 ELSE Null

\* ++attempt, ++round
Inc(n) == IF n < CounterCap THEN n + 1 ELSE n

\* The objects `new xrpl.Client` can take: a failed client, and a closed one
\* that is neither #client nor about to be swapped in, is garbage.
FreeIds == {c \in ClientObjects : xrplClients[c].link = "unused"}

FirstFree == IF FreeIds = {} THEN NoClient
             ELSE CHOOSE c \in FreeIds : \A d \in FreeIds : c <= d

SecondFree == IF FreeIds \ {FirstFree} = {} THEN NoClient
              ELSE CHOOSE c \in FreeIds \ {FirstFree} : \A d \in FreeIds \ {FirstFree} : c <= d

\* new xrpl.Client(server) followed by #handleClientConnect up to
\* client.connect(): the listeners are attached and the link is opening.
NewClient(tbl, c, srv) ==
    [tbl EXCEPT ![c] = [server |-> srv, link |-> "connecting", listening |-> TRUE,
                        swap |-> FALSE, ledgerSub |-> FALSE, accounts |-> {}]]

\* removeAllListeners() on the client being replaced; a replaced client
\* whose link is closed is garbage.
RemoveListeners(tbl, old) ==
    IF old = NoClient THEN tbl
    ELSE IF tbl[old].link = "closed" THEN [tbl EXCEPT ![old] = NoXrplClient]
    ELSE [tbl EXCEPT ![old].listening = FALSE]

\* The link of client c closes; cl is #client. A closed link delivers no more
\* events and carries no subscriptions.
CloseClient(tbl, c, cl) ==
    [tbl EXCEPT ![c] = IF cl = c \/ tbl[c].swap
                         THEN [NoXrplClient EXCEPT !.link = "closed", !.swap = tbl[c].swap]
                         ELSE NoXrplClient]

\* The requests in flight on client c when its link closes: they will reject.
LoseTargets(ss, c) ==
    [s \in Sessions |->
        [ss[s] EXCEPT !.wTarget = IF @ = c THEN NoClient ELSE @,
                      !.lTarget = IF @ = c THEN NoClient ELSE @]]

LoseTarget(sub, c) == IF sub.target = c THEN [sub EXCEPT !.target = NoClient] ELSE sub

\* The primary loop's while test with the disconnect flag left out.
PrimaryLoopTestIgnoringDisconnect(perm, prim) == ~prim

\* The primary loop's while test.
PrimaryLoopTest(perm, prim) == ~perm /\ ~prim

\* The primary loop from its while test to the await of the next attempt (on
\* client c), or to its end.
PrimaryHead(sess, perm, prim, c) ==
    IF PrimaryLoopTest(perm, prim)
      THEN [sess EXCEPT !.pPc = "connecting", !.pAttempt = Inc(@), !.pClient = c]
      ELSE [sess EXCEPT !.pPc = "done", !.pAttempt = 0, !.pClient = NoClient]

\* The primary loop's catch block with the disconnect flag not consulted.
PrimaryCatchIgnoringDisconnect(sess, perm, prim, c) ==
    IF MaxAttemptsOf(sess.kind) = Null \/ sess.pAttempt < MaxAttemptsOf(sess.kind)
      THEN [sess EXCEPT !.pPc = "backoff", !.pClient = NoClient]
      ELSE [sess EXCEPT !.pPc = "threw", !.pAttempt = 0, !.pClient = NoClient]

\* The primary loop's catch block: back off, throw, or (after disconnect())
\* fall through to the while test.
PrimaryCatch(sess, perm, prim, c) ==
    IF ~perm
      THEN IF MaxAttemptsOf(sess.kind) = Null \/ sess.pAttempt < MaxAttemptsOf(sess.kind)
             THEN [sess EXCEPT !.pPc = "backoff", !.pClient = NoClient]
             ELSE [sess EXCEPT !.pPc = "threw", !.pAttempt = 0, !.pClient = NoClient]
      ELSE PrimaryHead(sess, perm, prim, c)

\* The next attempt of the fallback loop: on server srv, counted att.
FallbackAttempt(sess, round, srv, att, c) ==
    [sess EXCEPT !.fPc = "connecting", !.fRound = round, !.fServer = srv,
                 !.fAttempt = att, !.fClient = c]

\* The fallback loop from its while test on, over a list of n servers.
FallbackWhileOf(n, sess, perm, prim, fb, c) ==
    IF /\ n > 0
       /\ ~perm /\ ~prim /\ ~fb
       /\ MaxRoundsOf(sess.kind) = Null \/ sess.fRound < MaxRoundsOf(sess.kind)
      THEN FallbackAttempt(sess, Inc(sess.fRound), 1, 1, c)
      ELSE [sess EXCEPT !.fPc = "done", !.fRound = 0, !.fServer = 0, !.fAttempt = 0,
                        !.fClient = NoClient]

FallbackWhile(sess, perm, prim, fb, c) ==
    FallbackWhileOf(NumFallbackServers, sess, perm, prim, fb, c)

\* The fallback loop from the test of its inner for loop on: the next attempt
\* on the same server, the first on the next server, or the while test. The
\* test of line 1192 repeats the one of line 1186 and is true here.
FallbackForOf(n, sess, perm, prim, fb, c) ==
    IF sess.fAttempt < AttemptsPerServerOf(sess.kind)
      THEN IF prim \/ perm
             THEN FallbackWhileOf(n, sess, perm, prim, fb, c)
             ELSE FallbackAttempt(sess, sess.fRound, sess.fServer, sess.fAttempt + 1, c)
    ELSE IF sess.fServer < n
      THEN IF prim \/ perm
             THEN FallbackWhileOf(n, sess, perm, prim, fb, c)
             ELSE FallbackAttempt(sess, sess.fRound, sess.fServer + 1, 1, c)
    ELSE FallbackWhileOf(n, sess, perm, prim, fb, c)

FallbackFor(sess, perm, prim, fb, c) ==
    FallbackForOf(NumFallbackServers, sess, perm, prim, fb, c)

\* The fallback loop's catch block.
FallbackCatchOf(n, sess, perm, prim, fb, c) ==
    IF ~perm
      THEN IF MaxRoundsOf(sess.kind) = Null \/ sess.fRound < MaxRoundsOf(sess.kind)
             THEN [sess EXCEPT !.fPc = "backoff", !.fClient = NoClient]
             ELSE [sess EXCEPT !.fPc = "threw", !.fRound = 0, !.fServer = 0,
                               !.fAttempt = 0, !.fClient = NoClient]
      ELSE FallbackForOf(n, [sess EXCEPT !.fClient = NoClient], perm, prim, fb, c)

FallbackCatch(sess, perm, prim, fb, c) ==
    FallbackCatchOf(NumFallbackServers, sess, perm, prim, fb, c)

\* #connectXrplClient up to its first await: the fallback loop and then the
\* primary loop run to their first attempt (on clients c1 and c2), and
\* #waitForConnection starts polling.
StartSession(kind, perm, prim, fb, c1, c2) ==
    PrimaryHead(FallbackWhile([NoSession EXCEPT !.kind = kind, !.wStage = "conn",
                                                !.wWait = TRUE],
                              perm, prim, fb, c1),
                perm, prim, c2)

\* The client objects after the loops of a new call made their first attempts.
StartClients(tbl, sess) ==
    LET tbl1 == IF sess.fPc = "connecting"
                  THEN NewClient(tbl, sess.fClient, sess.fServer) ELSE tbl
    IN  IF sess.pPc = "connecting" THEN NewClient(tbl1, sess.pClient, Primary) ELSE tbl1

\* A request can be sent on #client: there is one and its link is up.
\* (Without one the call throws a TypeError, on a closed link it rejects with
\* NotConnectedError; both end in the catch block of #handleClientRequest.)
CanIssue == client # NoClient /\ xrplClients[client].link = "connected"

\* The request #connectXrplClient or connect() makes after the sync step
\* `from`: the address replay when there are subscriptions, server_definitions
\* in connect(), none in the 'disconnected' handler.
AfterSync(kind) == IF kind = "connect" THEN "defs" ELSE "done"

NextStage(kind, from) ==
    CASE from = "index" -> IF addressSubscriptions # {} THEN "sub" ELSE AfterSync(kind)
      [] from \in {"sub", "disc"} -> AfterSync(kind)
      [] from = "defs" -> "done"

\* The call goes on to request `stage` through #handleClientRequest: it waits
\* in #acquireConnection, has the request in flight, or fails at once.
BeginStage(sess, stage, blocked, can) ==
    IF stage = "done"
      THEN [sess EXCEPT !.wStage = "done", !.wWait = FALSE, !.wTarget = NoClient]
    ELSE IF blocked
      THEN [sess EXCEPT !.wStage = stage, !.wWait = TRUE, !.wTarget = NoClient]
    ELSE IF can
      THEN [sess EXCEPT !.wStage = stage, !.wWait = FALSE, !.wTarget = client]
    ELSE [sess EXCEPT !.wStage = "threw", !.wWait = FALSE, !.wTarget = NoClient]

\* #isConnectionAcquired after BeginStage: set by #acquireConnection and, when
\* the request fails at once, cleared by the catch block.
FlagAfterBegin(flag, stage, blocked, can) ==
    IF stage = "done" \/ blocked THEN flag ELSE can

\* The client objects after BeginStage: the address replay is on #client.
ClientsAfterBegin(tbl, stage, blocked, can) ==
    IF stage = "sub" /\ ~blocked /\ can
      THEN [tbl EXCEPT ![client].accounts = @ \cup addressSubscriptions]
      ELSE tbl

\* The un-awaited #subscribeToStream('ledger').
BeginLedgerSubscribe(sess, blocked, can) ==
    IF blocked THEN [sess EXCEPT !.lPc = "wait"]
    ELSE IF can THEN [sess EXCEPT !.lPc = "inflight", !.lTarget = client]
    ELSE [sess EXCEPT !.lPc = "done"]

ClientsAfterLedgerSubscribe(tbl, blocked, can) ==
    IF ~blocked /\ can THEN [tbl EXCEPT ![client].ledgerSub = TRUE] ELSE tbl

\* disconnect() once it holds the client lock: with #client undefined the
\* isConnected() call throws, a connected client is closed (awaited), and
\* otherwise the call returns.
DisconnectBranch ==
    IF client = NoClient THEN "threw"
    ELSE IF xrplClients[client].link = "connected" THEN "closing"
    ELSE "returned"

\* What the parts of the model that are not the connection manager hold.
connFrame == <<reqPc, reqOn, swapPc, swapOp, swapArg, submitVars, retryVars, gatewayVars,
               routerVars, lateVars>>

ConnInit ==
    /\ isPrimaryServerConnected = FALSE
    /\ isFallbackServerConnected = FALSE
    /\ addressSubscriptions = {}
    /\ ledgerIndex = Null
    /\ xrplClients = [c \in ClientObjects |-> NoXrplClient]
    /\ sessions = [s \in Sessions |-> NoSession]
    /\ dPc = "idle"
    /\ subscriber = [pc |-> "idle", address |-> 0, target |-> NoClient]
    /\ reachable = [srv \in Servers |-> TRUE]
    /\ drops = 0

\* connect(): clears the disconnect flag and calls #connectXrplClient().
ConnectCall ==
    /\ sessions[1].kind = "none"
    /\ Cardinality(FreeIds) >= 2
    /\ isPermanentlyDisconnected' = FALSE
    /\ LET sess == StartSession("connect", FALSE, isPrimaryServerConnected,
                                isFallbackServerConnected, FirstFree, SecondFree)
       IN  /\ sessions' = [sessions EXCEPT ![1] = sess]
           /\ xrplClients' = StartClients(xrplClients, sess)
    /\ UNCHANGED <<client, isConnectionAcquired, isClientAcquired,
                   isPrimaryServerConnected, isFallbackServerConnected,
                   addressSubscriptions, ledgerIndex, dPc, subscriber, reachable, drops,
                   connFrame>>

\* client c connects: its 'connected' handler calls #setXrplClient(c), which
\* swaps c in at once when the lock is free and otherwise waits in
\* #acquireClient.
ClientsAfterConnected(c) ==
    IF AcquireClientBlocked
      THEN [xrplClients EXCEPT ![c].link = "connected", ![c].swap = TRUE]
      ELSE RemoveListeners([xrplClients EXCEPT ![c].link = "connected"], client)

ClientAfterConnected(c) == IF AcquireClientBlocked THEN client ELSE c

\* The primary attempt of call s connects: the handler runs and the loop sets
\* the flags and ends.
PrimaryConnectSucceeds(s) ==
    /\ sessions[s].pPc = "connecting"
    /\ reachable[Primary]
    /\ xrplClients' = ClientsAfterConnected(sessions[s].pClient)
    /\ client' = ClientAfterConnected(sessions[s].pClient)
    /\ isFallbackServerConnected' = FALSE
    /\ isPrimaryServerConnected' = TRUE
    /\ sessions' = [sessions EXCEPT ![s].pPc = "done", ![s].pAttempt = 0,
                                    ![s].pClient = NoClient]
    /\ UNCHANGED <<isConnectionAcquired, isClientAcquired, isPermanentlyDisconnected,
                   addressSubscriptions, ledgerIndex, dPc, subscriber, reachable, drops,
                   connFrame>>

\* The primary attempt of call s fails: the catch block runs. The failed
\* client is garbage; an attempt made without a sleep in between takes its
\* place.
PrimaryConnectFails(s) ==
    /\ sessions[s].pPc = "connecting"
    /\ ~reachable[Primary]
    /\ LET c == sessions[s].pClient
           sess == PrimaryCatch(sessions[s], isPermanentlyDisconnected,
                                isPrimaryServerConnected, c)
       IN  /\ sessions' = [sessions EXCEPT ![s] = sess]
           /\ xrplClients' = IF sess.pPc = "connecting"
                               THEN NewClient(xrplClients, c, Primary)
                               ELSE [xrplClients EXCEPT ![c] = NoXrplClient]
    /\ UNCHANGED <<client, isConnectionAcquired, isClientAcquired, isPermanentlyDisconnected,
                   isPrimaryServerConnected, isFallbackServerConnected,
                   addressSubscriptions, ledgerIndex, dPc, subscriber, reachable, drops,
                   connFrame>>

\* The throw of a bounded loop rejects the promise of the un-awaited
\* Promise.all of #connectXrplClient, which nothing handles. What follows an
\* unhandled rejection is the host's choice: it is reported and the program
\* runs on (the steps above), or the process is terminated (Node's default),
\* and with it every call, timer and link.
ExitedSession == [NoSession EXCEPT !.kind = "exited"]

ProcessExit ==
    /\ client' = NoClient
    /\ isConnectionAcquired' = FALSE
    /\ isClientAcquired' = FALSE
    /\ isPermanentlyDisconnected' = FALSE
    /\ isPrimaryServerConnected' = FALSE
    /\ isFallbackServerConnected' = FALSE
    /\ addressSubscriptions' = {}
    /\ ledgerIndex' = Null
    /\ xrplClients' = [c \in ClientObjects |-> NoXrplClient]
    /\ sessions' = [s \in Sessions |-> ExitedSession]
    /\ dPc' = "exited"
    /\ subscriber' = [pc |-> "exited", address |-> 0, target |-> NoClient]
    /\ UNCHANGED <<reachable, drops, connFrame>>

\* The primary attempt of call s fails, the loop throws, and the host
\* terminates the process.
PrimaryConnectFailsFatally(s) ==
    /\ sessions[s].pPc = "connecting"
    /\ ~reachable[Primary]
    /\ PrimaryCatch(sessions[s], isPermanentlyDisconnected, isPrimaryServerConnected,
                    sessions[s].pClient).pPc = "threw"
    /\ ProcessExit

\* The same for the fallback attempt of call s.
FallbackConnectFailsFatally(s) ==
    /\ sessions[s].fPc = "connecting"
    /\ ~reachable[sessions[s].fServer]
    /\ FallbackCatch(sessions[s], isPermanentlyDisconnected, isPrimaryServerConnected,
                     isFallbackServerConnected, sessions[s].fClient).fPc = "threw"
    /\ ProcessExit

\* The primary loop's backoff delay ends: back to the while test.
PrimaryBackoffWake(s) ==
    /\ sessions[s].pPc = "backoff"
    /\ FreeIds # {}
    /\ LET sess == PrimaryHead(sessions[s], isPermanentlyDisconnected,
                               isPrimaryServerConnected, FirstFree)
       IN  /\ sessions' = [sessions EXCEPT ![s] = sess]
           /\ xrplClients' = IF sess.pPc = "connecting"
                               THEN NewClient(xrplClients, FirstFree, Primary)
                               ELSE xrplClients
    /\ UNCHANGED <<client, isConnectionAcquired, isClientAcquired, isPermanentlyDisconnected,
                   isPrimaryServerConnected, isFallbackServerConnected,
                   addressSubscriptions, ledgerIndex, dPc, subscriber, reachable, drops,
                   connFrame>>

\* The fallback attempt of call s connects: the handler runs, the loop sets
\* its flag and ends.
FallbackConnectSucceeds(s) ==
    /\ sessions[s].fPc = "connecting"
    /\ reachable[sessions[s].fServer]
    /\ xrplClients' = ClientsAfterConnected(sessions[s].fClient)
    /\ client' = ClientAfterConnected(sessions[s].fClient)
    /\ isFallbackServerConnected' = TRUE
    /\ sessions' = [sessions EXCEPT ![s] =
                      FallbackWhile(sessions[s], isPermanentlyDisconnected,
                                    isPrimaryServerConnected, TRUE, NoClient)]
    /\ UNCHANGED <<isConnectionAcquired, isClientAcquired, isPermanentlyDisconnected,
                   isPrimaryServerConnected,
                   addressSubscriptions, ledgerIndex, dPc, subscriber, reachable, drops,
                   connFrame>>

\* The fallback attempt of call s fails: the catch block runs.
FallbackConnectFails(s) ==
    /\ sessions[s].fPc = "connecting"
    /\ ~reachable[sessions[s].fServer]
    /\ LET c == sessions[s].fClient
           sess == FallbackCatch(sessions[s], isPermanentlyDisconnected,
                                 isPrimaryServerConnected, isFallbackServerConnected, c)
       IN  /\ sessions' = [sessions EXCEPT ![s] = sess]
           /\ xrplClients' = IF sess.fPc = "connecting"
                               THEN NewClient(xrplClients, c, sess.fServer)
                               ELSE [xrplClients EXCEPT ![c] = NoXrplClient]
    /\ UNCHANGED <<client, isConnectionAcquired, isClientAcquired, isPermanentlyDisconnected,
                   isPrimaryServerConnected, isFallbackServerConnected,
                   addressSubscriptions, ledgerIndex, dPc, subscriber, reachable, drops,
                   connFrame>>

\* The fallback loop's backoff delay ends: back to the inner for loop.
FallbackBackoffWake(s) ==
    /\ sessions[s].fPc = "backoff"
    /\ FreeIds # {}
    /\ LET sess == FallbackFor(sessions[s], isPermanentlyDisconnected,
                               isPrimaryServerConnected, isFallbackServerConnected,
                               FirstFree)
       IN  /\ sessions' = [sessions EXCEPT ![s] = sess]
           /\ xrplClients' = IF sess.fPc = "connecting"
                               THEN NewClient(xrplClients, FirstFree, sess.fServer)
                               ELSE xrplClients
    /\ UNCHANGED <<client, isConnectionAcquired, isClientAcquired, isPermanentlyDisconnected,
                   isPrimaryServerConnected, isFallbackServerConnected,
                   addressSubscriptions, ledgerIndex, dPc, subscriber, reachable, drops,
                   connFrame>>

\* The 'connected' handler of c wakes in #acquireClient with the lock free:
\* #setXrplClient swaps c in.
ConnectedHandlerPoll(c) ==
    /\ xrplClients[c].swap
    /\ ~AcquireClientBlocked
    /\ xrplClients' = RemoveListeners([xrplClients EXCEPT ![c].swap = FALSE], client)
    /\ client' = c
    /\ UNCHANGED <<isConnectionAcquired, isClientAcquired, isPermanentlyDisconnected,
                   isPrimaryServerConnected, isFallbackServerConnected,
                   addressSubscriptions, ledgerIndex, sessions, dPc, subscriber,
                   reachable, drops, connFrame>>

\* disconnect() as #connectXrplClient calls it, from the moment it holds the
\* client lock.
SessionDisconnectBody(s) ==
    /\ isPermanentlyDisconnected' = TRUE
    /\ CASE DisconnectBranch = "threw" ->
              /\ sessions' = [sessions EXCEPT ![s].wStage = "threw", ![s].wWait = FALSE]
              /\ UNCHANGED <<isClientAcquired, isConnectionAcquired>>
         [] DisconnectBranch = "closing" ->
              /\ sessions' = [sessions EXCEPT ![s].wStage = "disc", ![s].wWait = FALSE]
              /\ isClientAcquired' = TRUE
              /\ UNCHANGED isConnectionAcquired
         [] DisconnectBranch = "returned" ->
              LET stage == NextStage(sessions[s].kind, "disc")
              IN  /\ sessions' = [sessions EXCEPT ![s] =
                                    BeginStage(sessions[s], stage, FALSE, CanIssue)]
                  /\ isConnectionAcquired' =
                        FlagAfterBegin(isConnectionAcquired, stage, FALSE, CanIssue)
                  /\ UNCHANGED isClientAcquired

\* #waitForConnection wakes with a connected flag set: #connectXrplClient goes
\* on to #getLedgerIndex, or to disconnect() when the flag is set.
WaitForConnectionPoll(s) ==
    /\ sessions[s].wStage = "conn"
    /\ isPrimaryServerConnected \/ isFallbackServerConnected
    /\ IF ~isPermanentlyDisconnected
         THEN /\ sessions' = [sessions EXCEPT ![s] =
                                BeginStage(sessions[s], "index",
                                           AcquireConnectionBlocked, CanIssue)]
              /\ isConnectionAcquired' =
                    FlagAfterBegin(isConnectionAcquired, "index",
                                   AcquireConnectionBlocked, CanIssue)
              /\ UNCHANGED <<isClientAcquired, isPermanentlyDisconnected>>
         ELSE IF AcquireClientBlocked
                THEN /\ sessions' = [sessions EXCEPT ![s].wStage = "disc", ![s].wWait = TRUE]
                     /\ UNCHANGED <<isConnectionAcquired, isClientAcquired,
                                    isPermanentlyDisconnected>>
                ELSE SessionDisconnectBody(s)
    /\ UNCHANGED <<client, isPrimaryServerConnected, isFallbackServerConnected,
                   addressSubscriptions, ledgerIndex, xrplClients, dPc, subscriber,
                   reachable, drops, connFrame>>

\* A request of call s wakes in #acquireConnection with the lock free.
SessionRequestPoll(s) ==
    /\ sessions[s].wStage \in {"index", "sub", "defs"}
    /\ sessions[s].wWait
    /\ ~AcquireConnectionBlocked
    /\ sessions' = [sessions EXCEPT ![s] =
                      BeginStage(sessions[s], sessions[s].wStage, FALSE, CanIssue)]
    /\ isConnectionAcquired' = CanIssue
    /\ xrplClients' = ClientsAfterBegin(xrplClients, sessions[s].wStage, FALSE, CanIssue)
    /\ UNCHANGED <<client, isClientAcquired, isPermanentlyDisconnected,
                   isPrimaryServerConnected, isFallbackServerConnected,
                   addressSubscriptions, ledgerIndex, dPc, subscriber, reachable, drops,
                   connFrame>>

\* A request of call s settles: the lock flag is cleared; a rejection ends
\* the call, a response takes it to its next step. After the ledger index
\* the ledger stream is subscribed without await.
SessionRequestSettle(s) ==
    /\ sessions[s].wStage \in {"index", "sub", "defs"}
    /\ ~sessions[s].wWait
    /\ LET sess == sessions[s]
           ok == sess.wTarget # NoClient
           stage == NextStage(sess.kind, sess.wStage)
           blocked == AcquireConnectionBlocked
       IN  IF ~ok
             THEN /\ sessions' = [sessions EXCEPT ![s].wStage = "threw",
                                                  ![s].wTarget = NoClient]
                  /\ isConnectionAcquired' = FALSE
                  /\ UNCHANGED <<ledgerIndex, xrplClients>>
           ELSE IF sess.wStage = "index"
             THEN /\ ledgerIndex' = netLedger
                  /\ sessions' = [sessions EXCEPT ![s] =
                        BeginStage(BeginLedgerSubscribe(sess, blocked, CanIssue),
                                   stage, blocked, CanIssue)]
                  /\ isConnectionAcquired' = (~blocked /\ CanIssue)
                  /\ xrplClients' =
                        ClientsAfterBegin(
                            ClientsAfterLedgerSubscribe(xrplClients, blocked, CanIssue),
                            stage, blocked, CanIssue)
             ELSE /\ sessions' = [sessions EXCEPT ![s] =
                                    BeginStage(sess, stage, blocked, CanIssue)]
                  /\ isConnectionAcquired' = FlagAfterBegin(FALSE, stage, blocked, CanIssue)
                  /\ xrplClients' = ClientsAfterBegin(xrplClients, stage, blocked, CanIssue)
                  /\ UNCHANGED ledgerIndex
    /\ UNCHANGED <<client, isClientAcquired, isPermanentlyDisconnected,
                   isPrimaryServerConnected, isFallbackServerConnected,
                   addressSubscriptions, dPc, subscriber, reachable, drops, connFrame>>

\* The ledger subscribe of call s wakes in #acquireConnection.
LedgerSubscribePoll(s) ==
    /\ sessions[s].lPc = "wait"
    /\ ~AcquireConnectionBlocked
    /\ sessions' = [sessions EXCEPT ![s] = BeginLedgerSubscribe(sessions[s], FALSE, CanIssue)]
    /\ isConnectionAcquired' = CanIssue
    /\ xrplClients' = ClientsAfterLedgerSubscribe(xrplClients, FALSE, CanIssue)
    /\ UNCHANGED <<client, isClientAcquired, isPermanentlyDisconnected,
                   isPrimaryServerConnected, isFallbackServerConnected,
                   addressSubscriptions, ledgerIndex, dPc, subscriber, reachable, drops,
                   connFrame>>

\* The ledger subscribe of call s settles; nothing awaits its result.
LedgerSubscribeSettle(s) ==
    /\ sessions[s].lPc = "inflight"
    /\ sessions' = [sessions EXCEPT ![s].lPc = "done", ![s].lTarget = NoClient]
    /\ isConnectionAcquired' = FALSE
    /\ UNCHANGED <<client, isClientAcquired, isPermanentlyDisconnected,
                   isPrimaryServerConnected, isFallbackServerConnected,
                   addressSubscriptions, ledgerIndex, xrplClients, dPc, subscriber,
                   reachable, drops, connFrame>>

\* The disconnect() of call s wakes in #acquireClient with the lock free.
SessionDisconnectPoll(s) ==
    /\ sessions[s].wStage = "disc"
    /\ sessions[s].wWait
    /\ ~AcquireClientBlocked
    /\ SessionDisconnectBody(s)
    /\ UNCHANGED <<client, isPrimaryServerConnected, isFallbackServerConnected,
                   addressSubscriptions, ledgerIndex, xrplClients, dPc, subscriber,
                   reachable, drops, connFrame>>

\* The link of #client after client.disconnect(), and the connected flags
\* after its 'disconnected' handler, which does not reconnect because the
\* disconnect flag is set.
ClientsAfterClose == CloseClient(xrplClients, client, client)

FlagAfterClose(flag) == IF xrplClients[client].listening THEN FALSE ELSE flag

\* client.disconnect() of call s settles: the lock is released, disconnect()
\* returns and the call goes on.
SessionDisconnectClosed(s) ==
    /\ sessions[s].wStage = "disc"
    /\ ~sessions[s].wWait
    /\ xrplClients' = ClientsAfterClose
    /\ isPrimaryServerConnected' = FlagAfterClose(isPrimaryServerConnected)
    /\ isFallbackServerConnected' = FlagAfterClose(isFallbackServerConnected)
    /\ isClientAcquired' = FALSE
    /\ subscriber' = LoseTarget(subscriber, client)
    /\ LET stage == NextStage(sessions[s].kind, "disc")
           lost == LoseTargets(sessions, client)
       IN  /\ sessions' = [lost EXCEPT ![s] = BeginStage(lost[s], stage, FALSE, FALSE)]
           /\ isConnectionAcquired' = FlagAfterBegin(isConnectionAcquired, stage, FALSE, FALSE)
    /\ UNCHANGED <<client, isPermanentlyDisconnected, addressSubscriptions, ledgerIndex,
                   dPc, reachable, drops, connFrame>>

\* disconnect() as the caller calls it, from the moment it holds the lock.
UserDisconnectBody ==
    /\ isPermanentlyDisconnected' = TRUE
    /\ dPc' = IF DisconnectBranch = "closing" THEN "closing" ELSE "done"
    /\ isClientAcquired' = (DisconnectBranch = "closing")

\* The caller calls disconnect().
UserDisconnectCall ==
    /\ dPc = "idle"
    /\ IF AcquireClientBlocked
         THEN /\ dPc' = "wait"
              /\ UNCHANGED <<isClientAcquired, isPermanentlyDisconnected>>
         ELSE UserDisconnectBody
    /\ UNCHANGED <<client, isConnectionAcquired,
                   isPrimaryServerConnected, isFallbackServerConnected,
                   addressSubscriptions, ledgerIndex, xrplClients, sessions, subscriber,
                   reachable, drops, connFrame>>

\* The caller's disconnect() wakes in #acquireClient with the lock free.
UserDisconnectPoll ==
    /\ dPc = "wait"
    /\ ~AcquireClientBlocked
    /\ UserDisconnectBody
    /\ UNCHANGED <<client, isConnectionAcquired,
                   isPrimaryServerConnected, isFallbackServerConnected,
                   addressSubscriptions, ledgerIndex, xrplClients, sessions, subscriber,
                   reachable, drops, connFrame>>

\* client.disconnect() of the caller's disconnect() settles.
UserDisconnectClosed ==
    /\ dPc = "closing"
    /\ xrplClients' = ClientsAfterClose
    /\ isPrimaryServerConnected' = FlagAfterClose(isPrimaryServerConnected)
    /\ isFallbackServerConnected' = FlagAfterClose(isFallbackServerConnected)
    /\ isClientAcquired' = FALSE
    /\ dPc' = "done"
    /\ sessions' = LoseTargets(sessions, client)
    /\ subscriber' = LoseTarget(subscriber, client)
    /\ UNCHANGED <<client, isConnectionAcquired, isPermanentlyDisconnected,
                   addressSubscriptions, ledgerIndex, reachable, drops, connFrame>>

\* The subscribe request of subscribeToAddress: in flight on #client, or
\* failed at once.
SubscribeIssue(a) ==
    /\ subscriber' = IF CanIssue THEN [pc |-> "inflight", address |-> a, target |-> client]
                     ELSE [pc |-> "idle", address |-> 0, target |-> NoClient]
    /\ isConnectionAcquired' = CanIssue
    /\ xrplClients' = IF CanIssue THEN [xrplClients EXCEPT ![client].accounts = @ \cup {a}]
                      ELSE xrplClients

\* The caller calls subscribeToAddress(a, handler): the subscription is
\* pushed and the subscribe request made.
SubscribeToAddressCall(a) ==
    /\ subscriber.pc = "idle"
    /\ a \notin addressSubscriptions
    /\ addressSubscriptions' = addressSubscriptions \cup {a}
    /\ IF AcquireConnectionBlocked
         THEN /\ subscriber' = [pc |-> "wait", address |-> a, target |-> NoClient]
              /\ UNCHANGED <<isConnectionAcquired, xrplClients>>
         ELSE SubscribeIssue(a)
    /\ UNCHANGED <<client, isClientAcquired, isPermanentlyDisconnected,
                   isPrimaryServerConnected, isFallbackServerConnected,
                   ledgerIndex, sessions, dPc, reachable, drops, connFrame>>

\* The caller's subscribe request wakes in #acquireConnection.
SubscribePoll ==
    /\ subscriber.pc = "wait"
    /\ ~AcquireConnectionBlocked
    /\ SubscribeIssue(subscriber.address)
    /\ UNCHANGED <<client, isClientAcquired, isPermanentlyDisconnected,
                   isPrimaryServerConnected, isFallbackServerConnected,
                   addressSubscriptions, ledgerIndex, sessions, dPc, reachable, drops,
                   connFrame>>

\* The caller's subscribe request settles.
SubscribeSettle ==
    /\ subscriber.pc = "inflight"
    /\ subscriber' = [pc |-> "idle", address |-> 0, target |-> NoClient]
    /\ isConnectionAcquired' = FALSE
    /\ UNCHANGED <<client, isClientAcquired, isPermanentlyDisconnected,
                   isPrimaryServerConnected, isFallbackServerConnected,
                   addressSubscriptions, ledgerIndex, xrplClients, sessions, dPc,
                   reachable, drops, connFrame>>

\* The call of #connectXrplClient the next 'disconnected' handler makes.
NextSession ==
    IF \E s \in Sessions : s > 1 /\ sessions[s].kind = "none"
      THEN CHOOSE s \in Sessions :
              /\ s > 1 /\ sessions[s].kind = "none"
              /\ \A t \in Sessions : (t > 1 /\ sessions[t].kind = "none") => s <= t
      ELSE 0

\* The network drops the link of client c, whose listeners are attached: the
\* 'disconnected' handler clears both connected flags and, unless
\* disconnect() was called, calls #connectXrplClient(true).
LinkDrop(c) ==
    /\ xrplClients[c].link = "connected"
    /\ xrplClients[c].listening
    /\ drops < MaxDrops
    /\ drops' = drops + 1
    /\ isPrimaryServerConnected' = FALSE
    /\ isFallbackServerConnected' = FALSE
    /\ IF AutoReconnect /\ ~isPermanentlyDisconnected
         THEN /\ NextSession # 0
              /\ Cardinality(FreeIds) >= 2
              /\ LET sess == StartSession("reconnect", isPermanentlyDisconnected,
                                          FALSE, FALSE, FirstFree, SecondFree)
                 IN  /\ sessions' = [LoseTargets(sessions, c) EXCEPT ![NextSession] = sess]
                     /\ xrplClients' = StartClients(CloseClient(xrplClients, c, client), sess)
         ELSE /\ xrplClients' = CloseClient(xrplClients, c, client)
              /\ sessions' = LoseTargets(sessions, c)
    /\ subscriber' = LoseTarget(subscriber, c)
    /\ UNCHANGED <<client, isConnectionAcquired, isClientAcquired, isPermanentlyDisconnected,
                   addressSubscriptions, ledgerIndex, dPc, reachable, connFrame>>

\* Client c delivers 'ledgerClosed' events: its link is up, the listeners of
\* #initEventListeners are attached and the ledger stream is subscribed on it.
DeliversLedgerClosed(c) ==
    /\ xrplClients[c].link = "connected"
    /\ xrplClients[c].listening
    /\ xrplClients[c].ledgerSub

\* The network closes a ledger; the 'ledgerClosed' handler of a client that
\* delivers the event stores its index.
LedgerClosedEvent ==
    /\ netLedger < MaxLedger
    /\ netLedger' = netLedger + 1
    /\ ledgerIndex' = IF \E c \in ClientObjects : DeliversLedgerClosed(c)
                        THEN netLedger + 1
                        ELSE ledgerIndex
    /\ UNCHANGED <<client, isConnectionAcquired, isClientAcquired, isPermanentlyDisconnected,
                   isPrimaryServerConnected, isFallbackServerConnected,
                   addressSubscriptions, xrplClients, sessions, dPc, subscriber,
                   reachable, drops>>
    /\ UNCHANGED <<sPc, sLastLedger, sSubmission, sLatest, sResult, sOutcome, sent,
                   txValidated, txLedger, txMeta>>
    /\ UNCHANGED <<reqPc, reqOn, swapPc, swapOp, swapArg, retryVars, gatewayVars, routerVars,
                   lateVars>>

\* A server becomes reachable or unreachable.
ReachabilityChange(srv) ==
    /\ reachable' = [reachable EXCEPT ![srv] = ~@]
    /\ UNCHANGED <<client, isConnectionAcquired, isClientAcquired, isPermanentlyDisconnected,
                   isPrimaryServerConnected, isFallbackServerConnected,
                   addressSubscriptions, ledgerIndex, xrplClients, sessions, dPc,
                   subscriber, drops, connFrame>>

\* The connection manager while the caller does not call disconnect().
ConnectedNext ==
    \/ ConnectCall
    \/ \E s \in Sessions : PrimaryConnectSucceeds(s)
    \/ \E s \in Sessions : PrimaryConnectFails(s)
    \/ \E s \in Sessions : PrimaryConnectFailsFatally(s)
    \/ \E s \in Sessions : PrimaryBackoffWake(s)
    \/ \E s \in Sessions : FallbackConnectSucceeds(s)
    \/ \E s \in Sessions : FallbackConnectFails(s)
    \/ \E s \in Sessions : FallbackConnectFailsFatally(s)
    \/ \E s \in Sessions : FallbackBackoffWake(s)
    \/ \E c \in ClientObjects : ConnectedHandlerPoll(c)
    \/ \E s \in Sessions : WaitForConnectionPoll(s)
    \/ \E s \in Sessions : SessionRequestSettle(s)
    \/ \E s \in Sessions : LedgerSubscribeSettle(s)
    \/ \E a \in Addresses : SubscribeToAddressCall(a)
    \/ SubscribeSettle
    \/ \E c \in ClientObjects : LinkDrop(c)
    \/ \E srv \in Servers : ReachabilityChange(srv)

\* The caller's disconnect(), the one #connectXrplClient makes when it finds
\* the flag set, and the requests that wait in #acquireConnection while a
\* disconnect() holds the client lock (#setXrplClient holds it for no longer
\* than a synchronous stretch).
DisconnectNext ==
    \/ \E s \in Sessions : SessionRequestPoll(s)
    \/ \E s \in Sessions : LedgerSubscribePoll(s)
    \/ SubscribePoll
    \/ \E s \in Sessions : SessionDisconnectPoll(s)
    \/ \E s \in Sessions : SessionDisconnectClosed(s)
    \/ UserDisconnectCall
    \/ UserDisconnectPoll
    \/ UserDisconnectClosed

ConnNext == ConnectedNext \/ DisconnectNext

\* The connection manager with every server reachable and every link staying
\* up, and the ledgers the network closes: connect(), its two racing
\* attempts, the ledger-index sync and the 'ledgerClosed' events.
LedgerNext ==
    \/ ConnectCall
    \/ \E s \in Sessions : PrimaryConnectSucceeds(s)
    \/ \E s \in Sessions : FallbackConnectSucceeds(s)
    \/ \E c \in ClientObjects : ConnectedHandlerPoll(c)
    \/ \E s \in Sessions : WaitForConnectionPoll(s)
    \/ \E s \in Sessions : SessionRequestSettle(s)
    \/ \E s \in Sessions : LedgerSubscribeSettle(s)
    \/ LedgerClosedEvent

\* ------------------------------------------------- transaction routing
\* The 'transaction' listener that #initEventListeners puts on every
\* client (host-client.js 1128-1174), and subscribeToAddress /
\* unsubscribeFromAddress (1461-1473), which edit the list it reads.
\* Everything between two awaits runs in one step; the only await of the
\* listener is the token lookup of its 'URITokenBuy' branch.

NumRouteAddresses == 2
NumHandlers == 2
MaxSubscriptions == 3
MaxScans == 1

RouteAddresses == 1..NumRouteAddresses
Handlers == 1..NumHandlers
Scans == 1..MaxScans

\* An entry of #addressSubscriptions: { address, handler } (1462).
SubscriptionEntries == [address : RouteAddresses, handler : Handlers]

\* A URI token as getURITokens lists it; NoOffer is the undefined that
\* find returns when no token passes.
NoOffer == [index |-> "none", Amount |-> FALSE]

\* The ledgers the transactions of the model are validated in.
TxLedgers == {MaxLedger}

EngineResults == {"tesSUCCESS", "tecHOOK_REJECTED"}

\* data.engine_result_message, as the server words it for each result.
EngineResultMessage(result) ==
    IF result = "tesSUCCESS" THEN "applied" ELSE "rejected by the hook"

\* data.transaction.Memos and .HookParameters as they arrive: hex encoded.
RawMemos == <<[encoding |-> "hex", field |-> "memo"]>>

RawHookParams == <<[encoding |-> "hex", field |-> "parameter"]>>

\* The 'transaction' messages a server delivers. heldBy and hasAmount are
\* the ledger's side of a 'URITokenBuy': the subscribed address that held
\* the bought token in the previous ledger (Null: none of them) and
\* whether the token carried a sell offer. A 'URITokenBuy' has no
\* Destination field.
PaymentEvents ==
    [validated : BOOLEAN, ledger_index : TxLedgers, engine_result : EngineResults,
     TransactionType : {"Payment"}, Destination : RouteAddresses,
     URITokenID : {"none"}, URITokenSellOffer : {NoOffer},
     heldBy : {Null}, hasAmount : {FALSE}]

URITokenBuyEvents ==
    {d \in [validated : BOOLEAN, ledger_index : TxLedgers, engine_result : EngineResults,
            TransactionType : {"URITokenBuy"}, Destination : {Null},
            URITokenID : {"bought"}, URITokenSellOffer : {NoOffer},
            heldBy : RouteAddresses \cup {Null}, hasAmount : BOOLEAN] :
        d.heldBy = Null => ~d.hasAmount}

TransactionEvents == PaymentEvents \cup URITokenBuyEvents

NoTransaction ==
    [validated |-> FALSE, ledger_index |-> Null, engine_result |-> "none",
     TransactionType |-> "none", Destination |-> Null,
     URITokenID |-> "none", URITokenSellOffer |-> NoOffer,
     heldBy |-> Null, hasAmount |-> FALSE]

\* A listener run that is not in progress.
\* (`after` and `overtaken` record the order of the runs: the runs that were
\* in progress when this one began, and whether a run that began later has
\* called its handlers.)
NoScan ==
    [pc |-> "free", data |-> NoTransaction, next |-> 0, lookups |-> <<>>,
     after |-> {}, overtaken |-> FALSE]

\* No listener run returned in the step just taken.
NoDelivery ==
    [data |-> NoTransaction, lookups |-> <<>>, calls |-> <<>>, decoded |-> FALSE,
     overtaken |-> FALSE]

\* The null that a handler gets in place of the transaction.
NoPayload ==
    [LedgerIndex |-> Null, TransactionType |-> "none", Destination |-> Null,
     URITokenSellOffer |-> NoOffer, Memos |-> <<>>, HookParameters |-> <<>>]

\* No subscribeToAddress / unsubscribeFromAddress in the step just taken.
NoCall == [op |-> "none", address |-> Null, handler |-> Null, removed |-> 0]

RouterInit ==
    /\ subscriptionList = <<>>
    /\ scans = [k \in Scans |-> NoScan]
    /\ delivered = NoDelivery
    /\ called = NoCall

\* What the rest of the model holds.
routerFrame ==
    <<lockVars, submitVars, retryVars, gatewayVars,
      isPrimaryServerConnected, isFallbackServerConnected, addressSubscriptions,
      ledgerIndex, xrplClients, sessions, dPc, subscriber, reachable, drops, lateVars>>

\* subscribeToAddress(address, handler): the entry is pushed before the
\* 'subscribe' request is awaited (1462).
SubscribeToAddress(address, handler) ==
    /\ Len(subscriptionList) < MaxSubscriptions
    /\ subscriptionList' =
           Append(subscriptionList, [address |-> address, handler |-> handler])
    /\ called' = [op |-> "subscribe", address |-> address, handler |-> handler,
                  removed |-> 0]
    /\ delivered' = NoDelivery
    /\ UNCHANGED <<scans, routerFrame>>

\* Array.prototype.splice(i, 1).
Splice(subs, i) == SubSeq(subs, 1, i - 1) \o SubSeq(subs, i + 1, Len(subs))

\* The loop testing the address only.
RECURSIVE SpliceAddress(_, _, _, _)
SpliceAddress(subs, i, address, handler) ==
    IF i < 1 THEN subs
    ELSE IF subs[i].address = address
         THEN SpliceAddress(Splice(subs, i), i - 1, address, handler)
         ELSE SpliceAddress(subs, i - 1, address, handler)

\* The loop leaving after its first splice.
RECURSIVE SpliceLastMatching(_, _, _, _)
SpliceLastMatching(subs, i, address, handler) ==
    IF i < 1 THEN subs
    ELSE IF subs[i].address = address /\ subs[i].handler = handler
         THEN Splice(subs, i)
         ELSE SpliceLastMatching(subs, i - 1, address, handler)

\* The loop of unsubscribeFromAddress, from the last index down (1467-1471).
RECURSIVE SpliceMatching(_, _, _, _)
SpliceMatching(subs, i, address, handler) ==
    IF i < 1 THEN subs
    ELSE IF subs[i].address = address /\ subs[i].handler = handler
         THEN SpliceMatching(Splice(subs, i), i - 1, address, handler)
         ELSE SpliceMatching(subs, i - 1, address, handler)

\* unsubscribeFromAddress(address, handler): the loop runs before the
\* 'unsubscribe' request is awaited (1467-1472). `removed` counts the
\* splices it made.
UnsubscribeFromAddress(address, handler) ==
    /\ subscriptionList' =
           SpliceMatching(subscriptionList, Len(subscriptionList), address, handler)
    /\ called' = [op |-> "unsubscribe", address |-> address, handler |-> handler,
                  removed |-> Len(subscriptionList) - Len(subscriptionList')]
    /\ delivered' = NoDelivery
    /\ UNCHANGED <<scans, routerFrame>>

\* The ledger the token lookup asks for (1136).
LookupLedger(data) == data.ledger_index - 1

\* acc.getURITokens({ ledger_index }): the tokens `address` held as of
\* that ledger. The bought token is its seller's up to the ledger before
\* the purchase; every account also holds a token that is not the bought
\* one.
GetURITokens(data, address, ledger) ==
    <<[index |-> "other", Amount |-> TRUE]>>
        \o (IF data.heldBy = address /\ ledger < data.ledger_index
            THEN <<[index |-> data.URITokenID, Amount |-> data.hasAmount]>>
            ELSE <<>>)

\* offers.find(o => o.index === URITokenID && o.Amount) (1138).
RECURSIVE FindOffer(_, _, _)
FindOffer(offers, i, id) ==
    IF i > Len(offers) THEN NoOffer
    ELSE IF offers[i].index = id /\ offers[i].Amount THEN offers[i]
    ELSE FindOffer(offers, i + 1, id)

\* TransactionHelper.deserializeMemos / deserializeHookParams: hex to text.
DeserializeMemos(memos) ==
    [i \in 1..Len(memos) |-> [memos[i] EXCEPT !.encoding = "text"]]

DeserializeHookParams(params) ==
    [i \in 1..Len(params) |-> [params[i] EXCEPT !.encoding = "text"]]

\* tx.TransactionType.toLowerCase() (1162).
ToLowerCase(type) ==
    IF type = "Payment" THEN "payment"
    ELSE IF type = "URITokenBuy" THEN "uritokenbuy"
    ELSE type

\* The filter without its test: every entry passes.
MatchesAnyAddress(subs, destination) == subs

\* this.#addressSubscriptions.filter(s => s.address === Destination) (1150).
Matches(subs, destination) ==
    SelectSeq(subs, LAMBDA s : s.address = destination)

\* The tx object the handlers get on success (1152-1166).
Payload(data) ==
    [LedgerIndex |-> data.ledger_index,
     TransactionType |-> data.TransactionType,
     Destination |-> data.Destination,
     URITokenSellOffer |-> data.URITokenSellOffer,
     Memos |-> DeserializeMemos(RawMemos),
     HookParameters |-> DeserializeHookParams(RawHookParams)]

\* The test without the engine result: every transaction passes.
IsSuccessAlways(data) == TRUE

\* The engine-result test of the dispatch (1164).
IsSuccess(data) == data.engine_result = "tesSUCCESS"

\* The dispatch walking the matches from the last to the first.
HandlerCallsReversed(matches, data) ==
    [i \in 1..Len(matches) |->
        [handler |-> matches[Len(matches) + 1 - i].handler,
         eventName |-> ToLowerCase(data.TransactionType),
         tx |-> IF IsSuccess(data) THEN Payload(data) ELSE NoPayload,
         error |-> IF IsSuccess(data) THEN "undefined"
                   ELSE EngineResultMessage(data.engine_result)]]

\* matches.forEach(s => s.handler(...)) of either branch (1167, 1170).
HandlerCalls(matches, data) ==
    [i \in 1..Len(matches) |->
        IF IsSuccess(data)
        THEN [handler |-> matches[i].handler,
              eventName |-> ToLowerCase(data.TransactionType),
              tx |-> Payload(data), error |-> "undefined"]
        ELSE [handler |-> matches[i].handler,
              eventName |-> ToLowerCase(data.TransactionType),
              tx |-> NoPayload, error |-> EngineResultMessage(data.engine_result)]]

\* The listener from the filter to its end (1150-1172): what it has done
\* when it returns.
Route(data, lookups) ==
    LET matches == Matches(subscriptionList, data.Destination)
    IN  [data |-> data,
         lookups |-> lookups,
         calls |-> IF Len(matches) > 0 THEN HandlerCalls(matches, data) ELSE <<>>,
         decoded |-> Len(matches) > 0 /\ IsSuccess(data),
         overtaken |-> FALSE]

\* The listener runs in progress.
Pending == {k \in Scans : scans[k].pc # "free"}

\* The runs in progress once a run has returned: those in `earlier` began
\* before it, and have been overtaken when it called a handler.
Overtake(sc, earlier, ret) ==
    [k \in Scans |->
        IF sc[k].pc = "free" THEN sc[k]
        ELSE [sc[k] EXCEPT !.overtaken = @ \/ (k \in earlier /\ ret.calls # <<>>),
                           !.after = @ \ {j \in Scans : sc[j].pc = "free"}]]

\* The listener takes the 'URITokenBuy' branch and reaches its first await.
StartsScan(data) ==
    /\ data.validated
    /\ data.TransactionType = "URITokenBuy"
    /\ Len(subscriptionList) > 0

\* A 'transaction' message arrives (1128): the listener runs to its end,
\* or to the first token lookup of the 'URITokenBuy' branch (1136).
TransactionEvent(data) ==
    /\ IF StartsScan(data)
       THEN /\ \E k \in Scans :
                  /\ scans[k].pc = "free"
                  /\ \A j \in Scans : j < k => scans[j].pc # "free"
                  /\ scans' = [scans EXCEPT ![k] =
                         [pc |-> "lookup", data |-> data, next |-> 2,
                          lookups |-> <<[address |-> subscriptionList[1].address,
                                         ledger_index |-> LookupLedger(data)]>>,
                          after |-> Pending, overtaken |-> FALSE]]
            /\ delivered' = NoDelivery
       ELSE /\ delivered' = IF data.validated
                              THEN Route(data, <<>>)
                              ELSE [NoDelivery EXCEPT !.data = data]
            /\ scans' = IF data.validated
                         THEN Overtake(scans, Pending, Route(data, <<>>))
                         ELSE scans
    /\ called' = NoCall
    /\ UNCHANGED <<subscriptionList, routerFrame>>

\* A token lookup answers (1136-1147): on a find the transaction is
\* annotated with the address of the entry the lookup was made for (the
\* last of lookups) and the loop left; otherwise the loop goes on with
\* the entry the array holds now at the iterator's index, or ends.
LookupSettle(k) ==
    /\ scans[k].pc = "lookup"
    /\ LET scan == scans[k]
           asked == scan.lookups[Len(scan.lookups)]
           offers == GetURITokens(scan.data, asked.address, asked.ledger_index)
           offer == FindOffer(offers, 1, scan.data.URITokenID)
           found == [scan.data EXCEPT !.Destination = asked.address,
                                      !.URITokenSellOffer = offer]
       IN  IF offer # NoOffer
           THEN /\ delivered' = [Route(found, scan.lookups)
                                     EXCEPT !.overtaken = scan.overtaken]
                /\ scans' = Overtake([scans EXCEPT ![k] = NoScan], scan.after,
                                     Route(found, scan.lookups))
           ELSE IF scan.next <= Len(subscriptionList)
           THEN /\ scans' = [scans EXCEPT ![k] =
                       [scan EXCEPT
                           !.next = scan.next + 1,
                           !.lookups = Append(scan.lookups,
                               [address |-> subscriptionList[scan.next].address,
                                ledger_index |-> LookupLedger(scan.data)])]]
                /\ delivered' = NoDelivery
           ELSE /\ delivered' = [Route(scan.data, scan.lookups)
                                     EXCEPT !.overtaken = scan.overtaken]
                /\ scans' = Overtake([scans EXCEPT ![k] = NoScan], scan.after,
                                     Route(scan.data, scan.lookups))
    /\ called' = NoCall
    /\ UNCHANGED <<subscriptionList, routerFrame>>

RouterNext ==
    \/ \E a \in RouteAddresses, h \in Handlers : SubscribeToAddress(a, h)
    \/ \E a \in RouteAddresses, h \in Handlers : UnsubscribeFromAddress(a, h)
    \/ \E d \in TransactionEvents : TransactionEvent(d)
    \/ \E k \in Scans : LookupSettle(k)

\* ------------------------------------------------- hook event decoding
\* EvernodeHook.subscribe() and #extractEvernodeHookEvent (part_000
\* 357-495): every payment the hook account sees is matched against the
\* rules below, in this order, and the first rule that matches names the
\* event.

\* XrplApi's lock, requests, connection manager and transaction listener.
lateFrame ==
    <<lockVars, submitVars, retryVars, gatewayVars,
      isPrimaryServerConnected, isFallbackServerConnected, addressSubscriptions,
      ledgerIndex, xrplClients, sessions, dPc, subscriber, reachable, drops, routerVars>>

MemoTypes ==
    {"REDEEM", "REDEEM_REF", "REDEEM_RESP", "REFUND", "HOST_REG", "HOST_DEREG",
     "AUDIT_REQ", "AUDIT_SUCCESS"}

MemoFormats == {"BINARY", "JSON", "TEXT"}

\* memo.data: empty, a raw payload, a JSON text with or without a reason.
MemoData == {"", "raw", "{reason}", "{}"}

\* The first memo of a transaction, and the second where there is one.
FirstMemos == [type : MemoTypes, format : MemoFormats, data : {"", "raw"}]

SecondMemos == [type : {"REDEEM_RESP", "REFUND"}, format : MemoFormats, data : MemoData]

\* The transactions the listener is given. fromHook: tx.Account is the
\* hook's own address; evr: tx.Amount is an object in the EVR currency;
\* toHost: tx.Destination is the address of a registered host.
HookTransactions ==
    [fromHook : BOOLEAN, evr : BOOLEAN, toHost : BOOLEAN,
     Memos : {<<>>} \cup {<<m>> : m \in FirstMemos}
                    \cup {<<m, n>> : m \in FirstMemos, n \in SecondMemos}]

NoHookTransaction == [fromHook |-> FALSE, evr |-> FALSE, toHost |-> FALSE, Memos |-> <<>>]

\* An event as the listener emits it; the fields a kind of event does not
\* have are "undefined". `null` is what the extraction returns when no
\* rule matches, `threw` its rejection.
HookEvent(name, redeemTxHash, reason, payload) ==
    [name |-> name, redeemTxHash |-> redeemTxHash, reason |-> reason, payload |-> payload]

NoHookEvent == HookEvent("none", "undefined", "undefined", "undefined")

\* JSON.parse(payload).reason (part_000 416, 421).
ParsedReason(payload) ==
    IF payload = "{reason}" THEN "reason"
    ELSE IF payload = "{}" THEN "undefined"
    ELSE "threw"

\* The test of the reward rule (378-381).
IsReward(tx) == tx.fromHook /\ tx.evr /\ tx.toHost

\* The test of a rule on the first memo: its format, its type and, where
\* the rule asks for it, data that is not empty (394, 409, 437, 448).
FirstMemoIs(tx, format, type) ==
    /\ Len(tx.Memos) >= 1
    /\ tx.Memos[1].format = format
    /\ tx.Memos[1].type = type
    /\ tx.Memos[1].data # ""

\* The test of the redeem response rule (409-411).
IsRedeemResponse(tx) ==
    /\ Len(tx.Memos) >= 2
    /\ FirstMemoIs(tx, "BINARY", "REDEEM_REF")
    /\ tx.Memos[2].type = "REDEEM_RESP"
    /\ tx.Memos[2].data # ""

\* The body without the test of the second memo's format.
RedeemResponseAlwaysSuccess(tx) ==
    HookEvent("RedeemSuccess", tx.Memos[1].data, "undefined", tx.Memos[2].data)

\* The body of the redeem response rule (413-435).
RedeemResponseEvent(tx) ==
    IF tx.Memos[2].format = "JSON"
    THEN IF ParsedReason(tx.Memos[2].data) = "threw"
         THEN HookEvent("threw", "undefined", "undefined", "undefined")
         ELSE HookEvent("RedeemError", tx.Memos[1].data,
                        ParsedReason(tx.Memos[2].data), "undefined")
    ELSE HookEvent("RedeemSuccess", tx.Memos[1].data, "undefined", tx.Memos[2].data)

\* #extractEvernodeHookEvent(tx) (372-495).
ExtractEvernodeHookEvent(tx) ==
    IF IsReward(tx)
    THEN HookEvent("Reward", "undefined", "undefined", "undefined")
    ELSE IF Len(tx.Memos) = 0
    THEN HookEvent("null", "undefined", "undefined", "undefined")
    ELSE IF FirstMemoIs(tx, "BINARY", "REDEEM")
    THEN HookEvent("Redeem", "undefined", "undefined", tx.Memos[1].data)
    ELSE IF IsRedeemResponse(tx)
    THEN RedeemResponseEvent(tx)
    ELSE IF FirstMemoIs(tx, "BINARY", "REFUND")
    THEN HookEvent("RefundRequest", tx.Memos[1].data, "undefined", "undefined")
    ELSE IF FirstMemoIs(tx, "TEXT", "HOST_REG")
    THEN HookEvent("HostRegistered", "undefined", "undefined", "undefined")
    ELSE IF tx.Memos[1].type = "HOST_DEREG"
    THEN HookEvent("HostDeregistered", "undefined", "undefined", "undefined")
    ELSE IF tx.Memos[1].format = "BINARY" /\ tx.Memos[1].type = "AUDIT_REQ"
    THEN HookEvent("AuditRequest", "undefined", "undefined", "undefined")
    ELSE IF tx.Memos[1].format = "BINARY" /\ tx.Memos[1].type = "AUDIT_SUCCESS"
    THEN HookEvent("AuditSuccess", "undefined", "undefined", "undefined")
    ELSE HookEvent("null", "undefined", "undefined", "undefined")

HookInit ==
    /\ hookTx = NoHookTransaction
    /\ hookEvent = NoHookEvent


\* The payment listener of subscribe() extracts the event of the
\* transaction it was given (357-368).
HookPayment ==
    /\ hookEvent = NoHookEvent
    /\ hookEvent' = ExtractEvernodeHookEvent(hookTx)
    /\ UNCHANGED <<hookTx, leaseVars, registerVars, loopVars, auditVars, lateFrame>>

HookNext == HookPayment

\* ------------------------------------------------- lease token minting
\* HostClient.offerLease (host-client.js 233-258) and mintLease (318-331)
\* from the mint on: the mint goes through #submitWithRetry, whose model
\* above is the one used here.

LeaseInit ==
    /\ leasePc = "idle"
    /\ leaseOp = "none"
    /\ leaseToken = FALSE
    /\ leaseOutcome = [kind |-> "none", error |-> "none"]

\* What the lease call leaves alone outside the retry wrapper.
leaseFrame ==
    <<lockVars, submitVars, gatewayVars,
      isPrimaryServerConnected, isFallbackServerConnected, addressSubscriptions,
      ledgerIndex, xrplClients, sessions, dPc, subscriber, reachable, drops, routerVars,
      hookVars, registerVars, loopVars, auditVars>>

\* offerLease(...) / mintLease(...) reach the try block (233, 318).
LeaseCall(op) ==
    /\ leasePc = "idle"
    /\ rPc = "idle"
    /\ leasePc' = "minting"
    /\ leaseOp' = op
    /\ UNCHANGED <<leaseToken, leaseOutcome, retryVars, leaseFrame>>

\* The error #submitWithRetry threw is one the catch block acts on (238, 323).
IsDuplicate(e) == e.code = "tecDUPLICATE"

\* Where the call goes after the try / catch: offerLease looks the token
\* up (248), mintLease is at its end (331).
AfterMint(op) == IF op = "offerLease" THEN "lookup" ELSE "done"

\* What the call has returned when it is at its end.
OutcomeAfterMint(op) ==
    IF op = "offerLease" THEN [kind |-> "none", error |-> "none"]
    ELSE [kind |-> "return", error |-> "none"]

\* The await on #submitWithRetry settles (234-246, 319-330). A mint that
\* resolved has put the token on the ledger; tecDUPLICATE says the token is
\* there; a mint that took too long may or may not have been applied;
\* after any other error there is no token.
LeaseMintSettled(applied) ==
    /\ leasePc = "minting"
    /\ rPc = "done"
    /\ IF rOutcome.kind = "return"
       THEN /\ applied
            /\ leaseToken' = TRUE
            /\ leasePc' = AfterMint(leaseOp)
            /\ leaseOutcome' = OutcomeAfterMint(leaseOp)
       ELSE IF IsDuplicate(rOutcome.value)
       THEN /\ applied
            /\ leaseToken' = TRUE
            /\ leasePc' = "burning"
            /\ UNCHANGED leaseOutcome
       ELSE /\ applied => rOutcome.value.status = "TOOK_LONG"
            /\ leaseToken' = applied
            /\ leasePc' = AfterMint(leaseOp)
            /\ leaseOutcome' = OutcomeAfterMint(leaseOp)
    /\ UNCHANGED <<leaseOp, retryVars, leaseFrame>>

\* burnURIToken settles (241, 326): a rejection leaves the catch block
\* and the call.
LeaseBurnSettled(ok) ==
    /\ leasePc = "burning"
    /\ IF ok
       THEN /\ leaseToken' = FALSE
            /\ leasePc' = "reminting"
            /\ UNCHANGED leaseOutcome
       ELSE /\ leasePc' = "done"
            /\ leaseOutcome' = [kind |-> "throw", error |-> "burn"]
            /\ UNCHANGED leaseToken
    /\ UNCHANGED <<leaseOp, retryVars, leaseFrame>>

\* The second mintURIToken settles (243, 328).
LeaseRemintSettled(ok) ==
    /\ leasePc = "reminting"
    /\ IF ok
       THEN /\ leaseToken' = TRUE
            /\ leasePc' = AfterMint(leaseOp)
            /\ leaseOutcome' = OutcomeAfterMint(leaseOp)
       ELSE /\ leasePc' = "done"
            /\ leaseOutcome' = [kind |-> "throw", error |-> "mint"]
            /\ UNCHANGED leaseToken
    /\ UNCHANGED <<leaseOp, retryVars, leaseFrame>>

\* offerLease: getURITokenByUri answers (248-250).
LeaseLookupSettled ==
    /\ leasePc = "lookup"
    /\ IF leaseToken
       THEN /\ leasePc' = "selling"
            /\ UNCHANGED leaseOutcome
       ELSE /\ leasePc' = "done"
            /\ leaseOutcome' =
                   [kind |-> "throw", error |-> "Offer lease NFT creation error."]
    /\ UNCHANGED <<leaseOp, leaseToken, retryVars, leaseFrame>>

\* offerLease: the #submitWithRetry of the sell offer settles (252-257);
\* what it throws the call throws.
LeaseSellSettled(ok) ==
    /\ leasePc = "selling"
    /\ leasePc' = "done"
    /\ leaseOutcome' = IF ok THEN [kind |-> "return", error |-> "none"]
                       ELSE [kind |-> "throw", error |-> "sell"]
    /\ UNCHANGED <<leaseOp, leaseToken, retryVars, leaseFrame>>

LeaseNext ==
    \/ \E op \in {"offerLease", "mintLease"} : LeaseCall(op)
    \/ leasePc = "minting" /\ \E o \in RetryOptions : SubmitWithRetryCall(o)
    \/ CallbackResolved
    \/ \E e \in CallbackErrors : CallbackRejected(e)
    \/ RetryWake
    \/ \E applied \in BOOLEAN : LeaseMintSettled(applied)
    \/ \E ok \in BOOLEAN : LeaseBurnSettled(ok)
    \/ \E ok \in BOOLEAN : LeaseRemintSettled(ok)
    \/ LeaseLookupSettled
    \/ \E ok \in BOOLEAN : LeaseSellSettled(ok)

\* ------------------------------------- HostClient.register: accepting the offer

\* OFFER_WAIT_TIMEOUT (13): the polls register makes for the sell offer.
OFFER_WAIT_TIMEOUT == 60

RegisterInit ==
    /\ regPc = "idle"
    /\ attempts = 0
    /\ sellOffer = FALSE
    /\ offerLedgerIndex = 0
    /\ regOutcome = [kind |-> "none", error |-> "none"]
    /\ registryOffer = FALSE

\* What register leaves alone outside the retry wrapper.
registerFrame == <<lateFrame, hookVars, leaseVars, loopVars, auditVars>>

\* The 'ledgerClosed' handler stores the index of the ledger that closed
\* (1123-1126).
RegisterLedgerClosed ==
    /\ netLedger < MaxLedger
    /\ netLedger' = netLedger + 1
    /\ ledgerIndex' = netLedger + 1
    /\ UNCHANGED <<sPc, sLastLedger, sSubmission, sLatest, sResult, sOutcome, sent,
                   txValidated, txLedger, txMeta>>
    /\ UNCHANGED <<lockVars, retryVars, gatewayVars,
                   isPrimaryServerConnected, isFallbackServerConnected,
                   addressSubscriptions, xrplClients, sessions, dPc, subscriber,
                   reachable, drops, routerVars, lateVars>>

\* The registry hook answers the registration payment with a sell offer of
\* the registration token to the host.
RegistryOffers ==
    /\ regPc # "idle"
    /\ ~registryOffer
    /\ registryOffer' = TRUE
    /\ UNCHANGED <<regPc, attempts, sellOffer, offerLedgerIndex, regOutcome, registerFrame>>

\* register(...) on a connected client, after the registration payment
\* was submitted: the locals of the wait and the first getURITokens (496-505).
RegisterCall ==
    /\ regPc = "idle"
    /\ rPc = "idle"
    /\ ledgerIndex # Null
    /\ regPc' = "polling"
    /\ attempts' = 0
    /\ sellOffer' = FALSE
    /\ offerLedgerIndex' = 0
    /\ UNCHANGED <<regOutcome, registryOffer, registerFrame>>

\* The test of the next-ledger wait (527).
LedgerNotPassedAnyOffer(index, offerIndex) == index < offerIndex

LedgerNotPassed(index, offerIndex) == index <= offerIndex

\* getURITokens resolves (505-518): the offer is looked for, the ledger
\* index is recorded, and the call goes on to the next-ledger wait (523-530)
\* or sleeps a second.
RegisterPollResolved ==
    /\ regPc = "polling"
    /\ sellOffer' = registryOffer
    /\ offerLedgerIndex' = ledgerIndex
    /\ regPc' = IF ~registryOffer THEN "sleeping"
                ELSE IF LedgerNotPassed(ledgerIndex, ledgerIndex) THEN "ledgerWait"
                ELSE "buying"
    /\ UNCHANGED <<attempts, regOutcome, registryOffer, registerFrame>>

\* getURITokens rejects: register throws what it threw.
RegisterPollRejected ==
    /\ regPc = "polling"
    /\ regPc' = "done"
    /\ regOutcome' = [kind |-> "throw", error |-> "getURITokens"]
    /\ UNCHANGED <<attempts, sellOffer, offerLedgerIndex, registryOffer, registerFrame>>

\* The second between two polls ends (515-516, 504, 518-519).
RegisterPollWake ==
    /\ regPc = "sleeping"
    /\ attempts' = attempts + 1
    /\ IF attempts + 1 < OFFER_WAIT_TIMEOUT
       THEN /\ regPc' = "polling"
            /\ UNCHANGED regOutcome
       ELSE /\ regPc' = "done"
            /\ regOutcome' = [kind |-> "throw",
                              error |-> "No sell offer found within timeout."]
    /\ UNCHANGED <<sellOffer, offerLedgerIndex, registryOffer, registerFrame>>

\* A second of the next-ledger wait ends while the wait goes on (527-528).
RegisterLedgerWaits ==
    /\ regPc = "ledgerWait"
    /\ LedgerNotPassed(ledgerIndex, offerLedgerIndex)
    /\ UNCHANGED vars

\* A second of the next-ledger wait ends and the wait is over (527-530): the
\* call goes on to #submitWithRetry (532).
RegisterLedgerPassed ==
    /\ regPc = "ledgerWait"
    /\ ~LedgerNotPassed(ledgerIndex, offerLedgerIndex)
    /\ regPc' = "buying"
    /\ UNCHANGED <<attempts, sellOffer, offerLedgerIndex, regOutcome, registryOffer,
                   registerFrame>>

\* The #submitWithRetry of buyURIToken settles (532-535): what it throws
\* the call throws, and otherwise isRegistered() is returned.
RegisterBuySettled ==
    /\ regPc = "buying"
    /\ rPc = "done"
    /\ regPc' = "done"
    /\ regOutcome' = IF rOutcome.kind = "return"
                     THEN [kind |-> "return", error |-> "none"]
                     ELSE [kind |-> "throw", error |-> "buy"]
    /\ UNCHANGED <<attempts, sellOffer, offerLedgerIndex, registryOffer, registerFrame>>

RegisterNext ==
    \/ RegisterLedgerClosed
    \/ RegistryOffers
    \/ RegisterCall
    \/ RegisterPollResolved
    \/ RegisterPollRejected
    \/ RegisterPollWake
    \/ RegisterLedgerWaits
    \/ RegisterLedgerPassed
    \/ regPc = "buying" /\ \E o \in RetryOptions : SubmitWithRetryCall(o)
    \/ CallbackResolved
    \/ \E e \in CallbackErrors : CallbackRejected(e)
    \/ RetryWake
    \/ RegisterBuySettled

\* ------------------------------ the reconnect loops over a list of servers
\* #attemptFallbackServerReconnect and #attemptPrimaryServerReconnect
\* (host-client.js 1177-1237) as #connectXrplClient (1239-1255) and the
\* 'disconnected' handler (1105-1121) start them, over a list of several
\* fallback servers. The clients are left out: a link stands for the
\* client that holds it, and the section ends where #waitForConnection
\* returns.

\* Length of #fallbackServers in this section.
NumListedServers == 2

\* Links the network drops.
MaxLinkDrops == 1

ListedServers == 1..NumListedServers
LoopServers == {Primary} \cup ListedServers

\* Call 1 of #connectXrplClient is connect()'s, the others are the
\* 'disconnected' handler's.
LoopCalls == 1..(MaxLinkDrops + 1)

LoopInit ==
    /\ loopCalls = [c \in LoopCalls |-> NoSession]
    /\ links = {}
    /\ listReachable = [srv \in LoopServers |-> TRUE]
    /\ linkDrops = 0

\* What the loops leave alone.
loopFrame ==
    <<client, isConnectionAcquired, isClientAcquired, isPermanentlyDisconnected,
      reqPc, reqOn, swapPc, swapOp, swapArg, submitVars, retryVars, gatewayVars,
      addressSubscriptions, ledgerIndex, xrplClients, sessions, dPc, subscriber,
      reachable, drops, routerVars, hookVars, leaseVars, registerVars, auditVars>>

\* #connectXrplClient up to its first await (1240-1255): the fallback loop
\* and then the primary loop run to their first attempt.
StartLoops(kind, perm, prim, fb) ==
    PrimaryHead(FallbackWhileOf(NumListedServers,
                                [NoSession EXCEPT !.kind = kind, !.wStage = "conn",
                                                  !.wWait = TRUE],
                                perm, prim, fb, NoClient),
                perm, prim, NoClient)

\* connect() (1328-1330).
LoopConnectCall ==
    /\ loopCalls[1].kind = "none"
    /\ ~isPermanentlyDisconnected
    /\ loopCalls' = [loopCalls EXCEPT ![1] =
           StartLoops("connect", FALSE, isPrimaryServerConnected,
                      isFallbackServerConnected)]
    /\ UNCHANGED <<isPrimaryServerConnected, isFallbackServerConnected, links,
                   listReachable, linkDrops, loopFrame>>

\* The primary attempt of call c connects (1219-1223).
LoopPrimaryConnects(c) ==
    /\ loopCalls[c].pPc = "connecting"
    /\ listReachable[Primary]
    /\ isFallbackServerConnected' = FALSE
    /\ isPrimaryServerConnected' = TRUE
    /\ links' = links \cup {Primary}
    /\ loopCalls' = [loopCalls EXCEPT ![c].pPc = "done", ![c].pAttempt = 0]
    /\ UNCHANGED <<listReachable, linkDrops, loopFrame>>

\* The primary attempt of call c fails (1225-1235).
LoopPrimaryFails(c) ==
    /\ loopCalls[c].pPc = "connecting"
    /\ ~listReachable[Primary]
    /\ loopCalls' = [loopCalls EXCEPT ![c] =
           PrimaryCatch(loopCalls[c], isPermanentlyDisconnected,
                        isPrimaryServerConnected, NoClient)]
    /\ UNCHANGED <<isPrimaryServerConnected, isFallbackServerConnected, links,
                   listReachable, linkDrops, loopFrame>>

\* The primary loop's backoff delay ends (1234, 1216).
LoopPrimaryWake(c) ==
    /\ loopCalls[c].pPc = "backoff"
    /\ loopCalls' = [loopCalls EXCEPT ![c] =
           PrimaryHead(loopCalls[c], isPermanentlyDisconnected,
                       isPrimaryServerConnected, NoClient)]
    /\ UNCHANGED <<isPrimaryServerConnected, isFallbackServerConnected, links,
                   listReachable, linkDrops, loopFrame>>

\* The fallback attempt of call c connects (1193-1196).
LoopFallbackConnects(c) ==
    /\ loopCalls[c].fPc = "connecting"
    /\ listReachable[loopCalls[c].fServer]
    /\ isFallbackServerConnected' = TRUE
    /\ links' = links \cup {loopCalls[c].fServer}
    /\ loopCalls' = [loopCalls EXCEPT ![c] =
           FallbackWhileOf(NumListedServers, loopCalls[c], isPermanentlyDisconnected,
                           isPrimaryServerConnected, TRUE, NoClient)]
    /\ UNCHANGED <<isPrimaryServerConnected, listReachable, linkDrops, loopFrame>>

\* The fallback attempt of call c fails (1198-1207).
LoopFallbackFails(c) ==
    /\ loopCalls[c].fPc = "connecting"
    /\ ~listReachable[loopCalls[c].fServer]
    /\ loopCalls' = [loopCalls EXCEPT ![c] =
           FallbackCatchOf(NumListedServers, loopCalls[c], isPermanentlyDisconnected,
                           isPrimaryServerConnected, isFallbackServerConnected,
                           NoClient)]
    /\ UNCHANGED <<isPrimaryServerConnected, isFallbackServerConnected, links,
                   listReachable, linkDrops, loopFrame>>

\* The fallback loop's backoff delay ends (1205, 1185).
LoopFallbackWake(c) ==
    /\ loopCalls[c].fPc = "backoff"
    /\ loopCalls' = [loopCalls EXCEPT ![c] =
           FallbackForOf(NumListedServers, loopCalls[c], isPermanentlyDisconnected,
                         isPrimaryServerConnected, isFallbackServerConnected,
                         NoClient)]
    /\ UNCHANGED <<isPrimaryServerConnected, isFallbackServerConnected, links,
                   listReachable, linkDrops, loopFrame>>

\* #waitForConnection of call c finds a connected flag set (1321-1326).
LoopWaitPoll(c) ==
    /\ loopCalls[c].wStage = "conn"
    /\ isPrimaryServerConnected \/ isFallbackServerConnected
    /\ loopCalls' = [loopCalls EXCEPT ![c].wStage = "done", ![c].wWait = FALSE]
    /\ UNCHANGED <<isPrimaryServerConnected, isFallbackServerConnected, links,
                   listReachable, linkDrops, loopFrame>>

\* The calls of #connectXrplClient not made yet.
NextLoopCall ==
    IF \E c \in LoopCalls : c > 1 /\ loopCalls[c].kind = "none"
      THEN CHOOSE c \in LoopCalls :
              /\ c > 1 /\ loopCalls[c].kind = "none"
              /\ \A d \in LoopCalls : (d > 1 /\ loopCalls[d].kind = "none") => c <= d
      ELSE 0

\* The network drops the link to srv: the 'disconnected' handler clears
\* both connected flags and, unless disconnect() was called, calls
\* #connectXrplClient(true) (1105-1121, 1240-1246).
LoopLinkDrops(srv) ==
    /\ srv \in links
    /\ linkDrops < MaxLinkDrops
    /\ linkDrops' = linkDrops + 1
    /\ links' = links \ {srv}
    /\ isPrimaryServerConnected' = FALSE
    /\ isFallbackServerConnected' = FALSE
    /\ IF AutoReconnect /\ ~isPermanentlyDisconnected
         THEN /\ NextLoopCall # 0
              /\ loopCalls' = [loopCalls EXCEPT ![NextLoopCall] =
                     StartLoops("reconnect", isPermanentlyDisconnected, FALSE, FALSE)]
         ELSE UNCHANGED loopCalls
    /\ UNCHANGED <<listReachable, loopFrame>>

\* A server starts or stops accepting connections.
LoopReachabilityChange(srv) ==
    /\ listReachable' = [listReachable EXCEPT ![srv] = ~@]
    /\ UNCHANGED <<isPrimaryServerConnected, isFallbackServerConnected, loopCalls, links,
                   linkDrops, loopFrame>>

LoopNext ==
    \/ LoopConnectCall
    \/ \E c \in LoopCalls : LoopPrimaryConnects(c)
    \/ \E c \in LoopCalls : LoopPrimaryFails(c)
    \/ \E c \in LoopCalls : LoopPrimaryWake(c)
    \/ \E c \in LoopCalls : LoopFallbackConnects(c)
    \/ \E c \in LoopCalls : LoopFallbackFails(c)
    \/ \E c \in LoopCalls : LoopFallbackWake(c)
    \/ \E c \in LoopCalls : LoopWaitPoll(c)
    \/ \E srv \in LoopServers : LoopLinkDrops(srv)
    \/ \E srv \in LoopServers : LoopReachabilityChange(srv)

\* ------------------------------------------- EvernodeClient.requestAudit
\* part_000 179-238. The promise requestAudit returns settles with the
\* first resolve or reject made at any level of getChecksAndProcess: each
\* level passes its settlement to the one above (221, 228, 235), and a
\* promise that has settled ignores every later resolve and reject.

\* evernodeHookConf.momentSize, in ledgers.
MomentSize == 2

NotSettled == [kind |-> "none", reason |-> "none"]

AuditInit ==
    /\ audPc = "idle"
    /\ audSettled = NotSettled
    /\ startingLedger = 0
    /\ hookCheck = FALSE
    /\ cashed = FALSE

\* What requestAudit leaves alone.
auditFrame == <<lateFrame, hookVars, leaseVars, registerVars, loopVars>>

\* resolve(...) / reject(...) on a promise that may have settled already.
Settle(kind, reason) ==
    IF audSettled = NotSettled THEN [kind |-> kind, reason |-> reason] ELSE audSettled

\* The moment window has passed (216).
WindowPassed(ledgerVersion, start) == ledgerVersion - start >= MomentSize

\* The network closes a ledger: rippleAPI.ledgerVersion advances.
AuditLedgerCloses ==
    /\ netLedger < MaxLedger
    /\ netLedger' = netLedger + 1
    /\ UNCHANGED <<sPc, sLastLedger, sSubmission, sLatest, sResult, sOutcome, sent,
                   txValidated, txLedger, txMeta>>
    /\ UNCHANGED <<lockVars, retryVars, gatewayVars, connVars>>

\* The hook answers the audit request with a check.
HookWritesCheck ==
    /\ audPc # "idle"
    /\ ~hookCheck
    /\ ~cashed
    /\ hookCheck' = TRUE
    /\ UNCHANGED <<audPc, audSettled, startingLedger, cashed, auditFrame>>

\* requestAudit(): the AUDIT_REQ payment is made (180-186).
RequestAuditCall ==
    /\ audPc = "idle"
    /\ audPc' = "paying"
    /\ UNCHANGED <<audSettled, startingLedger, hookCheck, cashed, auditFrame>>

\* makePayment settles (182-189, 230-236): with a result the first
\* getChecks is issued, a falsy result and a rejection reject.
AuditPaymentSettled(res) ==
    /\ audPc = "paying"
    /\ IF res = "result"
       THEN /\ startingLedger' = netLedger
            /\ audPc' = "polling"
            /\ UNCHANGED audSettled
       ELSE /\ audPc' = "stopped"
            /\ audSettled' = Settle("rejected",
                                    IF res = "falsy" THEN "TRANSACTION_FAILURE"
                                    ELSE "payment error")
            /\ UNCHANGED startingLedger
    /\ UNCHANGED <<hookCheck, cashed, auditFrame>>

\* getChecks settles (193-196, 213-221, 223-225): with a check the trust
\* lines are asked for, with none the timer is set, a rejection rejects.
AuditChecksSettled(ok) ==
    /\ audPc = "polling"
    /\ IF ~ok
       THEN /\ audPc' = "stopped"
            /\ audSettled' = Settle("rejected", "getChecks error")
       ELSE /\ audPc' = IF hookCheck THEN "trustLines" ELSE "timer"
            /\ UNCHANGED audSettled
    /\ UNCHANGED <<startingLedger, hookCheck, cashed, auditFrame>>

\* The timer fires (214-221): past the moment window the promise is
\* rejected, and getChecksAndProcess is called.
AuditTimerFires ==
    /\ audPc = "timer"
    /\ audSettled' = IF WindowPassed(netLedger, startingLedger)
                     THEN Settle("rejected", "No checks found within moment window.")
                     ELSE audSettled
    /\ audPc' = "polling"
    /\ UNCHANGED <<startingLedger, hookCheck, cashed, auditFrame>>

\* getTrustLines settles (196-202, 223-225): without a trust line one is
\* set, otherwise the check is cashed.
AuditTrustLinesSettled(lines) ==
    /\ audPc = "trustLines"
    /\ IF lines = "error"
       THEN /\ audPc' = "stopped"
            /\ audSettled' = Settle("rejected", "getTrustLines error")
       ELSE /\ audPc' = IF lines = "none" THEN "settingTrust" ELSE "cashing"
            /\ UNCHANGED audSettled
    /\ UNCHANGED <<startingLedger, hookCheck, cashed, auditFrame>>

\* setTrustLine settles (199-205): a falsy result rejects and the check
\* is cashed all the same.
AuditSetTrustLineSettled(ret) ==
    /\ audPc = "settingTrust"
    /\ IF ret = "error"
       THEN /\ audPc' = "stopped"
            /\ audSettled' = Settle("rejected", "setTrustLine error")
       ELSE /\ audPc' = "cashing"
            /\ audSettled' = IF ret = "falsy"
                             THEN Settle("rejected", "Creating trustline failed.")
                             ELSE audSettled
    /\ UNCHANGED <<startingLedger, hookCheck, cashed, auditFrame>>

\* cashCheck settles (205-212): a result resolves, a rejection rejects.
AuditCashSettled(ok) ==
    /\ audPc = "cashing"
    /\ audPc' = "stopped"
    /\ IF ok
       THEN /\ cashed' = TRUE
            /\ hookCheck' = FALSE
            /\ audSettled' = Settle("resolved", "cashed")
       ELSE /\ audSettled' = Settle("rejected", "TRANSACTION_FAILURE")
            /\ UNCHANGED <<hookCheck, cashed>>
    /\ UNCHANGED <<startingLedger, auditFrame>>

AuditNext ==
    \/ AuditLedgerCloses
    \/ HookWritesCheck
    \/ RequestAuditCall
    \/ \E res \in {"result", "falsy", "error"} : AuditPaymentSettled(res)
    \/ \E ok \in BOOLEAN : AuditChecksSettled(ok)
    \/ AuditTimerFires
    \/ \E lines \in {"none", "some", "error"} : AuditTrustLinesSettled(lines)
    \/ \E ret \in {"result", "falsy", "error"} : AuditSetTrustLineSettled(ret)
    \/ \E ok \in BOOLEAN : AuditCashSettled(ok)

LateInit == HookInit /\ LeaseInit /\ RegisterInit /\ LoopInit /\ AuditInit

\* --------------------------------------------------------- specifications

\* The lock of a constructed XrplApi under concurrent requests and swaps.
Init ==
    LockInit /\ SubmitInit /\ RetryInit /\ PagingInit /\ PointInit /\ ConnInit /\ RouterInit
        /\ LateInit

Spec == Init /\ [][LockNext]_vars

\* The same, with the scheduling the runtime and the transport guarantee:
\* a sleeping poll wakes up, a resumed call runs on, a request settles.
\* Nothing makes a caller start a new request or a new swap.
LockFairness ==
    /\ \A r \in Requests : WF_vars(AcquireConnectionPoll(r))
    /\ \A r \in Requests : WF_vars(ClientRequest(r))
    /\ \A r \in Requests : WF_vars(RequestSettle(r))
    /\ \A s \in Swappers : WF_vars(AcquireClientPoll(s))
    /\ \A s \in Swappers : WF_vars(SetXrplClientBody(s))
    /\ \A s \in Swappers : WF_vars(SetXrplClientAssign(s))
    /\ \A s \in Swappers : WF_vars(DisconnectBody(s))
    /\ \A s \in Swappers : WF_vars(DisconnectDone(s))

FairSpec == Init /\ [][LockNext]_vars /\ LockFairness

\* One submitAndWait / submitMultisignedAndWait call on a connected XrplApi.
ConnectedInit ==
    /\ client \in Clients
    /\ isConnectionAcquired = FALSE
    /\ isClientAcquired = FALSE
    /\ isPermanentlyDisconnected = FALSE
    /\ reqPc = [r \in Requests |-> "idle"]
    /\ reqOn = [r \in Requests |-> NoClient]
    /\ swapPc = [s \in Swappers |-> "idle"]
    /\ swapOp = [s \in Swappers |-> "none"]
    /\ swapArg = [s \in Swappers |-> NoClient]

SubmitSpecInit ==
    ConnectedInit /\ SubmitInit /\ RetryInit /\ PagingInit /\ PointInit /\ ConnInit
        /\ RouterInit /\ LateInit

SubmitSpec == SubmitSpecInit /\ [][SubmitNext]_vars

\* The same, with the scheduling the runtime and the transport guarantee:
\* the sleep of the wait ends and every request settles. Nothing makes the
\* network close a ledger.
SubmitFairness ==
    /\ WF_vars(WaitWake)
    /\ WF_vars(IndexResolved \/ \E e \in TransportErrors : IndexRejected(e))
    /\ WF_vars(TxNotFound \/ TxResolved \/ \E e \in TransportErrors : TxRejected(e))

FairSubmitSpec == SubmitSpecInit /\ [][SubmitNext]_vars /\ SubmitFairness

\* One #submitWithRetry call.
RetrySpec == Init /\ [][RetryNext]_vars

\* The request gateway of a connected XrplApi: one paginated listing and
\* point requests, one after another, running side by side.
GatewayNext == PagingNext \/ PointNext

GatewaySpec == SubmitSpecInit /\ [][GatewayNext]_vars

\* The connection manager of a constructed XrplApi with a primary server and
\* fallback servers: one connect(), the reconnect loops, the caller's
\* disconnect() and subscribeToAddress(), and the network.
ConnSpec == Init /\ [][ConnNext]_vars

\* The connection manager of an XrplApi whose caller never calls
\* disconnect(), with the scheduling the runtime and the network guarantee:
\* a connection attempt succeeds or fails, a timer fires, a request settles.
\* Nothing makes the caller call, a link drop or a server change state.
\* A pending attempt settles one way or the other even while its server
\* keeps changing state.
ConnFairness ==
    /\ \A s \in Sessions :
          /\ WF_vars(PrimaryConnectSucceeds(s) \/ PrimaryConnectFails(s))
          /\ WF_vars(PrimaryBackoffWake(s))
          /\ WF_vars(FallbackConnectSucceeds(s) \/ FallbackConnectFails(s))
          /\ WF_vars(FallbackBackoffWake(s))
          /\ WF_vars(WaitForConnectionPoll(s))
          /\ WF_vars(SessionRequestSettle(s))
          /\ WF_vars(LedgerSubscribeSettle(s))
    /\ \A c \in ClientObjects : WF_vars(ConnectedHandlerPoll(c))
    /\ WF_vars(SubscribeSettle)

FairConnSpec == Init /\ [][ConnectedNext]_vars /\ ConnFairness

\* The ledger index of a constructed XrplApi whose servers are all reachable.
LedgerSpec == Init /\ [][LedgerNext]_vars

\* The 'transaction' listener under subscriptions that come and go.
RouterSpec == Init /\ [][RouterNext]_vars

\* The hook's payment listener, given any one transaction of HookTransactions.
HookSpecInit ==
    /\ LockInit /\ SubmitInit /\ RetryInit /\ PagingInit /\ PointInit /\ ConnInit
    /\ RouterInit
    /\ hookTx \in HookTransactions
    /\ hookEvent = NoHookEvent
    /\ LeaseInit
    /\ RegisterInit
    /\ LoopInit
    /\ AuditInit

HookSpec == HookSpecInit /\ [][HookNext]_vars

\* One offerLease or mintLease call.
LeaseSpec == Init /\ [][LeaseNext]_vars

\* One register call from its wait for the sell offer on.
RegisterSpec == Init /\ [][RegisterNext]_vars

\* connect() and the reconnect loops over a list of fallback servers.
LoopSpec == Init /\ [][LoopNext]_vars

\* One requestAudit call.
AuditSpec == Init /\ [][AuditNext]_vars

\* ------------------------------------------------------------- properties

\* C1: no transport swap proceeds while a request is in flight: whenever the
\* swap side holds the client lock, no request issued on the transport is
\* still awaiting its completion.
C1_NoSwapWhileRequestInFlight ==
    isClientAcquired => \A r \in Requests : reqPc[r] # "inflight"

\* C2: no request is issued against a transport mid-swap: no request call
\* invokes the transport in a step taken while a swap holds the client lock.
C2_NoRequestIssuedMidSwap ==
    [][\A r \in Requests :
          (reqPc[r] = "acquired" /\ reqPc'[r] = "inflight") => ~isClientAcquired]_vars

\* C3: the lock starves neither side: a swap waiting in #acquireClient
\* eventually holds the client lock, and a request waiting in
\* #acquireConnection eventually holds the connection lock.
C3_NoStarvation ==
    /\ \A s \in Swappers : (swapPc[s] = "waitClient") ~> (swapPc[s] = "holding")
    /\ \A r \in Requests : (reqPc[r] = "waitConnection") ~> (reqPc[r] = "acquired")

\* The call threw the missing-LastLedgerSequence error.
ThrewMissingLastLedgerSequence ==
    /\ sPc = "done"
    /\ sOutcome.kind = "throw"
    /\ sOutcome.value.tag = "string"
    /\ sOutcome.value.text = MissingLastLedgerSequence

\* C4: a transaction without LastLedgerSequence is rejected before it reaches
\* the network: when the call has failed with the missing-LastLedgerSequence
\* error, no submit or submit_multisigned request has been issued.
C4_MissingExpiryRejectedBeforeSubmit ==
    ThrewMissingLastLedgerSequence => sent \cap {"submit", "submit_multisigned"} = {}

\* The call threw an object whose status is 'TOOK_LONG'.
ThrewTookLong ==
    /\ sPc = "done"
    /\ sOutcome.kind = "throw"
    /\ sOutcome.value.tag = "object"
    /\ "status" \in DOMAIN sOutcome.value.obj
    /\ sOutcome.value.obj.status = "TOOK_LONG"

\* C5: once the wait loop has read a ledger index above the transaction's
\* expiry index E, the call has failed with the error of status 'TOOK_LONG',
\* and that error carries every field of the provisional submission result.
C5_ExpiredCarriesSubmission ==
    (sLastLedger # Null /\ sLatest > sLastLedger) =>
        /\ ThrewTookLong
        /\ \A k \in DOMAIN sSubmission :
              /\ k \in DOMAIN sOutcome.value.obj
              /\ sOutcome.value.obj[k] = sSubmission[k]

\* C5's case: the loop read index E + 1 and the call is over.
C5_Witness ==
    /\ sLastLedger # Null
    /\ sLatest = sLastLedger + 1
    /\ sPc = "done"

\* C6: the wait never fails with Expired for a transaction validated in a
\* ledger of index <= E: such a call does not end with the 'TOOK_LONG' error.
C6_ValidatedNeverExpired ==
    (sPc = "done" /\ txValidated /\ sLastLedger # Null /\ txLedger <= sLastLedger)
        => ~ThrewTookLong

\* C7: a validated transaction whose engine result is not tesSUCCESS is
\* thrown, a tesSUCCESS one is returned, and both carry the same shape: id,
\* result code, the validated transaction and, when the metadata has hook
\* executions, their decoded trace (return code 0x1A = 26, return string
\* "AB" without its trailing NULs).
C7_FailureHasOutcomeShape ==
    (sPc = "done" /\ sResult.validated) =>
        /\ sOutcome.kind =
              (IF sResult.meta.TransactionResult = "tesSUCCESS" THEN "return" ELSE "throw")
        /\ sOutcome.value.tag = "object"
        /\ sOutcome.value.obj.id = TxHash
        /\ sOutcome.value.obj.code = sResult.meta.TransactionResult
        /\ sOutcome.value.obj.details = sResult
        /\ ("hookExecutionResult" \in DOMAIN sOutcome.value.obj)
              <=> ("HookExecutions" \in DOMAIN sResult.meta)
        /\ ("hookExecutionResult" \in DOMAIN sOutcome.value.obj) =>
              sOutcome.value.obj.hookExecutionResult =
                  <<[result |-> 3, returnCode |-> 26, message |-> <<65, 66>>]>>

\* C7's case: a validated tecHOOK_REJECTED transaction with a hook trace was
\* thrown.
C7_Witness ==
    /\ sPc = "done"
    /\ sResult.validated
    /\ sResult.meta.TransactionResult = "tecHOOK_REJECTED"
    /\ "HookExecutions" \in DOMAIN sResult.meta
    /\ sOutcome.kind = "throw"

\* The bound the caller asked for: maxRetryAttempts, 1 when it is absent (or
\* 0, which the code reads as absent).
RequestedAttempts ==
    IF rOptions.maxRetryAttempts = Null \/ rOptions.maxRetryAttempts = 0
      THEN 1 ELSE rOptions.maxRetryAttempts

\* C8: retry is bounded: the callback is invoked at most maxRetryAttempts
\* times, exactly once when maxRetryAttempts is absent, and when every attempt
\* failed the call rethrows the error of the last attempt.
C8_RetryBounded ==
    /\ Len(rCalls) <= RequestedAttempts
    /\ (rPc = "done" /\ rOptions.maxRetryAttempts = Null) => Len(rCalls) = 1
    /\ (rPc = "done" /\ Len(rErrors) = Len(rCalls)) =>
          /\ rOutcome.kind = "throw"
          /\ rOutcome.value = rErrors[Len(rErrors)]

\* C8's case: maxRetryAttempts attempts (more than one) were made, all failed
\* with errors that are not terminal, and the call is over.
C8_Witness ==
    /\ rPc = "done"
    /\ rOptions.maxRetryAttempts = 3
    /\ Len(rCalls) = 3
    /\ Len(rErrors) = 3
    /\ \A j \in 1..3 : rErrors[j].code \notin {"tecDUPLICATE", "tefPAST_SEQ", "tefALREADY"}

\* C9: terminal errors are never retried: an attempt that failed with
\* tecDUPLICATE, tefPAST_SEQ or tefALREADY is the last invocation, and the
\* call has rethrown that error.
C9_TerminalNeverRetried ==
    \A j \in 1..Len(rErrors) :
        rErrors[j].code \in {"tecDUPLICATE", "tefPAST_SEQ", "tefALREADY"} =>
            /\ j = Len(rErrors)
            /\ Len(rCalls) = j
            /\ rPc = "done"
            /\ rOutcome.kind = "throw"
            /\ rOutcome.value = rErrors[j]

\* C9's case: with three attempts allowed, the second one failed with
\* tefALREADY.
C9_Witness ==
    /\ rOptions.maxRetryAttempts = 3
    /\ Len(rErrors) = 2
    /\ rErrors[1].code = "tecPATH_DRY"
    /\ rErrors[2].code = "tefALREADY"

\* options.feeUplift, 0 when it is absent.
RequestedFeeUplift == IF rOptions.feeUplift = Null THEN 0 ELSE rOptions.feeUplift

\* C10: the feeUplift passed to the k-th invocation is options.feeUplift times
\* the number of earlier attempts that failed with status 'TOOK_LONG' (so 0 on
\* the first attempt, and unchanged by any other failure).
C10_FeeUpliftOnlyOnExpired ==
    \A k \in 1..Len(rCalls) :
        rCalls[k] = RequestedFeeUplift *
            Cardinality({j \in 1..(k - 1) : rErrors[j].status = "TOOK_LONG"})

\* C10's case: a third invocation after one TOOK_LONG failure and one other
\* failure, with a fee increment set.
C10_Witness ==
    /\ Len(rCalls) = 3
    /\ rOptions.feeUplift = FeeUpliftStep
    /\ rErrors[1].status = "TOOK_LONG"
    /\ rErrors[2].status # "TOOK_LONG"
    /\ rCalls[3] = FeeUpliftStep

\* C11: a paginated listing stops when the cursor is absent or the caller's
\* total count is satisfied: a request after the first is only issued when the
\* previous response carried a marker and, for a caller limit above 0, the
\* limits of the requests issued before it sum to less than that limit.
C11_StopsAtMarkerOrCount ==
    \A k \in 2..Len(pgRequests) :
        /\ pgPages[k - 1].marker # Null
        /\ (pgLimit # Null /\ pgLimit > 0) => LimitsOf(pgRequests, k - 1) < pgLimit

\* C12: every request of a paginated listing carries a limit between 1 and
\* MAX_PAGE_LIMIT, whatever limit the caller passed.
C12_PageLimitCapped ==
    \A k \in 1..Len(pgRequests) :
        pgRequests[k].limit >= 1 /\ pgRequests[k].limit <= MAX_PAGE_LIMIT

\* C12's case: a caller limit above MAX_PAGE_LIMIT and three requests issued.
C12_Witness ==
    /\ pgLimit # Null
    /\ pgLimit > MAX_PAGE_LIMIT
    /\ Len(pgRequests) = 3

\* C13: with no caller limit the first request carries no marker, each later
\* request carries the marker of the response before it, the listing goes on
\* exactly as long as the responses carry markers, and the result is the
\* in-order concatenation of the items of all pages received, each item of
\* the endpoint's listing once.
C13_ConcatenatesAllPages ==
    pgLimit = Null =>
        /\ \A k \in 1..Len(pgRequests) :
              pgRequests[k].marker = (IF k = 1 THEN Null ELSE pgPages[k - 1].marker)
        /\ \A k \in 1..Len(pgPages) :
              (pgPages[k].marker = Null) <=>
                  (k = Len(pgPages) /\ pgPc = "done" /\ pgOutcome.kind = "return")
        /\ (pgPc = "done" /\ pgOutcome.kind = "return") =>
              /\ pgOutcome.value = ItemsOf(pgPages, Len(pgPages))
              /\ pgOutcome.value = [j \in 1..Len(pgOutcome.value) |-> j]

\* C13's case: three pages, the second with a marker and zero items, the
\* third with items and no marker, and the listing returned.
C13_Witness ==
    /\ pgLimit = Null
    /\ pgPc = "done"
    /\ pgOutcome.kind = "return"
    /\ Len(pgPages) = 3
    /\ Len(pgPages[1].items) > 0
    /\ pgPages[2].hasItems /\ pgPages[2].items = <<>> /\ pgPages[2].marker # Null
    /\ Len(pgPages[3].items) > 0 /\ pgPages[3].marker = Null

\* C14: a point request propagates the transport's error unchanged, except
\* that isAccountExists returns false on 'actNotFound' and getLedgerEntry
\* returns null on 'entryNotFound'.
C14_PointErrorsPropagate ==
    (ptPc = "done" /\ ptError # NoError) =>
        ptOutcome =
            (IF ptOp = "isAccountExists" /\ ptError.hasData /\ ptError.error = "actNotFound"
               THEN [kind |-> "return", value |-> Str("false")]
             ELSE IF ptOp = "getLedgerEntry" /\ ptError.hasData
                       /\ ptError.error = "entryNotFound"
               THEN [kind |-> "return", value |-> Str("null")]
             ELSE Throw(Obj(ptError)))

\* C15: disconnect() is terminal. A step that creates a client and starts a
\* connection attempt on it (in the 'disconnected' handler, in the primary
\* loop or in the fallback loop) leaves the permanent-disconnected flag
\* false, so none is started once disconnect() has set it; and when the
\* client.disconnect() of a disconnect() call closes the transport (a link
\* that goes down while the process lives and the network has not dropped
\* it), the flag is already set.
C15_DisconnectIsTerminal ==
    [][ /\ \A c \in ClientObjects :
              (xrplClients[c].link # "connecting" /\ xrplClients'[c].link = "connecting")
                  => ~isPermanentlyDisconnected'
        /\ \A c \in ClientObjects :
              (/\ xrplClients[c].link = "connected"
               /\ xrplClients'[c].link # "connected"
               /\ drops' = drops
               /\ sessions'[1].kind # "exited")
                  => isPermanentlyDisconnected /\ isPermanentlyDisconnected'
      ]_vars

\* disconnect() was called while the loops of a 'disconnected' handler were
\* running, both loops have ended, and the transport has been closed.
C15_Witness ==
    /\ isPermanentlyDisconnected
    /\ dPc = "done"
    /\ drops > 0
    /\ \E s \in Sessions :
          /\ sessions[s].kind = "reconnect"
          /\ sessions[s].pPc = "done"
          /\ sessions[s].fPc = "done"
    /\ client # NoClient
    /\ xrplClients[client].link = "closed"
    /\ \A c \in ClientObjects : xrplClients[c].link # "connecting"

\* C16: a connection attempt that fails after disconnect() set the flag ends
\* its loop normally: the loop neither throws 'max attempts failed', nor
\* sleeps in a backoff, nor attempts again. This holds for the primary and
\* the fallback loop, bounded (connect) and unbounded (reconnect).
C16_PendingAttemptAbortsQuietly ==
    [][ \A s \in Sessions :
          /\ (/\ sessions[s].pPc = "connecting"
               /\ isPermanentlyDisconnected
               /\ xrplClients'[sessions[s].pClient].link = "unused")
                  => sessions'[s].pPc = "done"
          /\ (/\ sessions[s].fPc = "connecting"
               /\ isPermanentlyDisconnected
               /\ xrplClients'[sessions[s].fClient].link = "unused")
                  => sessions'[s].fPc = "done"
      ]_vars

\* connect() was followed by disconnect() before any attempt settled, and
\* then both attempts of the bounded loops failed: no client ever connected
\* and both loops have ended without throwing.
C16_Witness ==
    /\ isPermanentlyDisconnected
    /\ client = NoClient
    /\ \A c \in ClientObjects : xrplClients[c].link = "unused"
    /\ sessions[1].kind = "connect"
    /\ sessions[1].pPc = "done"
    /\ sessions[1].fPc = "done"

\* connect() has just been called: both bounded loops are at their first
\* attempt and #connectXrplClient polls in #waitForConnection.
ConnectJustCalled ==
    /\ sessions[1].kind = "connect"
    /\ sessions[1].pPc = "connecting"
    /\ sessions[1].fPc = "connecting"
    /\ sessions[1].wStage = "conn"

\* The primary is unreachable, every fallback server is reachable, no link
\* has dropped and the caller has not called disconnect().
PrimaryDownFallbackUp ==
    /\ ~reachable[Primary]
    /\ \A f \in FallbackServers : reachable[f]
    /\ drops = 0
    /\ dPc \notin {"wait", "closing", "done"}

\* The connected-on-fallback state, with connect() returned.
ConnectedFallback ==
    /\ isFallbackServerConnected
    /\ client # NoClient
    /\ xrplClients[client].link = "connected"
    /\ xrplClients[client].server \in FallbackServers
    /\ ledgerIndex # Null
    /\ sessions[1].wStage = "done"

\* C17: with the primary unreachable and the fallback reachable, connect()
\* reaches the connected-on-fallback state: from the call on, as long as the
\* network stays that way and nobody disconnects, the fallback flag becomes
\* true, #client becomes the fallback client, the ledger index is read and
\* connect() returns without error.
C17_ConnectReachesFallback ==
    (ConnectJustCalled /\ PrimaryDownFallbackUp)
        ~> (ConnectedFallback \/ ~PrimaryDownFallbackUp)

\* The connected-on-primary state.
ConnectedPrimary ==
    /\ isPrimaryServerConnected
    /\ client # NoClient
    /\ xrplClients[client].link = "connected"
    /\ xrplClients[client].server = Primary

\* The caller has called disconnect().
DisconnectCalled == dPc \in {"wait", "closing", "done"}

\* C18: the manager prefers the primary. Once connect() has connected on a
\* fallback without the primary, and the primary is reachable, the manager
\* eventually is connected on the primary: the primary flag is true and
\* #client is the primary client (unless the primary becomes unreachable
\* again or the caller disconnects).
C18_FallbackMigratesToPrimary ==
    (ConnectedFallback /\ ~isPrimaryServerConnected /\ reachable[Primary])
        ~> (ConnectedPrimary \/ ~reachable[Primary] \/ DisconnectCalled)

\* Client c is a fallback client the primary client has replaced as #client:
\* the manager is connected on the primary, and c, still connected, has had
\* its listeners removed by #setXrplClient.
ReplacedFallback(c) ==
    /\ ConnectedPrimary
    /\ c # client
    /\ xrplClients[c].link = "connected"
    /\ xrplClients[c].server \in FallbackServers
    /\ ~xrplClients[c].listening

\* C19: when the primary connects while a fallback connection is active, the
\* manager migrates and tears the fallback link down: a fallback client the
\* primary client has replaced is eventually disconnected.
C19_FallbackLinkTornDown ==
    \A c \in ClientObjects : ReplacedFallback(c) ~> (xrplClients[c].link # "connected")

\* Client c is the active transport.
ActiveTransport(c) == client = c /\ xrplClients[c].link = "connected"

\* C20: subscriptions survive every change of transport. Once a client is
\* the active transport, a subscribe request for the ledger stream and for
\* every address of the subscription list is eventually issued on it
\* (unless it stops being the active transport).
C20_SubscriptionsFollowTransport ==
    \A c \in ClientObjects :
        ActiveTransport(c)
            ~> (\/ ~ActiveTransport(c)
                \/ /\ xrplClients[c].ledgerSub
                   /\ addressSubscriptions \subseteq xrplClients[c].accounts)

\* The primary and every fallback server are unreachable.
AllUnreachable == \A srv \in Servers : ~reachable[srv]

\* connect() has rejected: the caller has received an error.
ConnectRejected == sessions[1].kind = "connect" /\ sessions[1].wStage = "threw"

\* C21: an initial connect() is bounded and surfaces failure. Called with
\* the primary and every fallback server unreachable, connect() eventually
\* rejects to its caller (unless a server becomes reachable or the caller
\* disconnects meanwhile).
C21_ConnectSurfacesFailure ==
    (ConnectJustCalled /\ AllUnreachable)
        ~> (ConnectRejected \/ ~AllUnreachable \/ DisconnectCalled)

\* A 'disconnected' handler has called #connectXrplClient(true).
Reconnecting == \E s \in Sessions : sessions[s].kind = "reconnect"

\* A connected flag is set and #client is a connected client.
Connected ==
    /\ isPrimaryServerConnected \/ isFallbackServerConnected
    /\ client # NoClient
    /\ xrplClients[client].link = "connected"

\* The process has been torn down.
ProcessExited == sessions[1].kind = "exited"

\* C22: a post-disconnect auto-reconnect is unbounded. The loops started by
\* the 'disconnected' handler never give up with a 'max attempts failed'
\* throw; and once a configured server is reachable and stays reachable, a
\* connection is eventually re-established (unless disconnect() is called or
\* the process is torn down).
C22_ReconnectUnbounded ==
    /\ [](\A s \in Sessions :
            sessions[s].kind = "reconnect"
                => sessions[s].pPc # "threw" /\ sessions[s].fPc # "threw")
    /\ \A srv \in Servers :
          (Reconnecting /\ reachable[srv])
              ~> (Connected \/ ~reachable[srv] \/ DisconnectCalled \/ ProcessExited)

\* After a link drop the fallback loop has reconnected while the primary
\* loop, having failed at least once, sleeps before its next attempt.
C22_Witness ==
    /\ Connected
    /\ \E s \in Sessions :
          /\ sessions[s].kind = "reconnect"
          /\ sessions[s].pPc = "backoff"
          /\ sessions[s].fPc = "done"
          /\ sessions[s].wStage = "done"

\* C23: exactly one connection state is active. The primary-connected and
\* the fallback-connected flag are never both true, and while the
\* primary-connected flag is true #client is the primary's client.
C23_OneConnectionState ==
    /\ ~(isPrimaryServerConnected /\ isFallbackServerConnected)
    /\ isPrimaryServerConnected
          => client # NoClient /\ xrplClients[client].server = Primary

\* C24: the ledger index is monotonic and written only by the
\* 'ledgerClosed' handler. While the process lives, no step lowers
\* ledgerIndex, and every step that changes it is the delivery of the
\* 'ledgerClosed' event of a ledger the network closes in that step.
C24_LedgerIndexFromLedgerClosedOnly ==
    [][ ~ProcessExited' =>
          /\ ledgerIndex # Null => ledgerIndex' >= ledgerIndex
          /\ ledgerIndex' # ledgerIndex => netLedger' # netLedger
      ]_vars

\* A listener run has returned in the step just taken.
Returned == delivered # NoDelivery

\* The entries of the list that are for `address`.
EntriesFor(address) ==
    {j \in DOMAIN subscriptionList : subscriptionList[j].address = address}

\* C25: a subscription's handler is invoked for a transaction only if the
\* transaction is validated and its destination, as resolved, is that
\* subscription's address; for a transaction that is not validated or
\* whose destination no subscription has, no handler is called and no
\* memo or hook parameter is decoded.
C25_OnlyValidatedIncoming ==
    /\ \A i \in DOMAIN delivered.calls :
          /\ delivered.data.validated
          /\ \E j \in EntriesFor(delivered.data.Destination) :
                subscriptionList[j].handler = delivered.calls[i].handler
    /\ (Returned /\ (~delivered.data.validated
                        \/ EntriesFor(delivered.data.Destination) = {}))
          => delivered.calls = <<>> /\ ~delivered.decoded

\* A validated transaction reached a handler while an entry for another
\* address, which got no call, was in the list.
C25_Witness ==
    /\ delivered.calls # <<>>
    /\ \E j \in DOMAIN subscriptionList :
          /\ subscriptionList[j].address # delivered.data.Destination
          /\ \A i \in DOMAIN delivered.calls :
                delivered.calls[i].handler # subscriptionList[j].handler

\* The listener run that has just returned handled a validated 'URITokenBuy'.
BuyReturned ==
    Returned /\ delivered.data.validated /\ delivered.data.TransactionType = "URITokenBuy"

\* The entries whose address held the bought token, with an Amount, in
\* the ledger before the purchase.
Holders ==
    {j \in EntriesFor(delivered.data.heldBy) : delivered.data.hasAmount}

\* C26: for a validated 'URITokenBuy' every token lookup asks for the
\* ledger before the transaction's; if a subscription's address held the
\* bought token with an Amount, the first such subscription wins: the
\* transaction is annotated with that address as Destination and with the
\* token as URITokenSellOffer, and the lookup that found it is the last
\* one made; if no subscription's address did, no handler is called.
C26_FirstHolderWins ==
    BuyReturned =>
        /\ \A i \in DOMAIN delivered.lookups :
              delivered.lookups[i].ledger_index = delivered.data.ledger_index - 1
        /\ Holders # {} =>
              /\ delivered.data.Destination = delivered.data.heldBy
              /\ delivered.data.URITokenSellOffer =
                     [index |-> delivered.data.URITokenID, Amount |-> TRUE]
              /\ \A i \in DOMAIN delivered.lookups :
                    delivered.lookups[i].address = delivered.data.heldBy
                        <=> i = Len(delivered.lookups)
        /\ Holders = {} => delivered.calls = <<>>

\* C27: a handler gets the transaction, with its memos and hook
\* parameters deserialised, only when the engine result is 'tesSUCCESS';
\* for any other engine result every handler called gets null in place of
\* the transaction together with the failure message; no call carries
\* both a transaction and a message.
C27_PayloadOnlyOnSuccess ==
    \A i \in DOMAIN delivered.calls :
        LET call == delivered.calls[i]
        IN  /\ IF delivered.data.engine_result = "tesSUCCESS"
               THEN /\ call.tx # NoPayload
                    /\ call.tx.Memos = DeserializeMemos(RawMemos)
                    /\ call.tx.HookParameters = DeserializeHookParams(RawHookParams)
                    /\ call.error = "undefined"
                    /\ delivered.decoded
               ELSE /\ call.tx = NoPayload
                    /\ call.error = EngineResultMessage(delivered.data.engine_result)
                    /\ ~delivered.decoded
            /\ ~(call.tx # NoPayload /\ call.error # "undefined")

\* A failed transaction reached two handlers.
C27_Witness ==
    /\ Len(delivered.calls) >= 2
    /\ delivered.data.engine_result # "tesSUCCESS"

\* The place of entry j among the entries of S, counted from the first.
Rank(S, j) == Cardinality({i \in S : i <= j})

\* C28: a transaction is dispatched exactly once to every entry of the
\* list whose address is its destination, in the order of the list: the
\* handler calls of one listener run are as many as those entries and the
\* n-th call goes to the handler of the n-th of them. The calls of one
\* transaction are made in one synchronous stretch, so a run's record
\* holds them and nothing else.
C28_OncePerEntryInOrder ==
    (Returned /\ delivered.data.validated) =>
        LET matching == EntriesFor(delivered.data.Destination)
        IN  /\ Len(delivered.calls) = Cardinality(matching)
            /\ \A j \in matching :
                  delivered.calls[Rank(matching, j)].handler = subscriptionList[j].handler
            /\ \A i \in DOMAIN delivered.calls :
                  delivered.calls[i].eventName = ToLowerCase(delivered.data.TransactionType)

\* Two entries for the destination, with different handlers and an entry
\* for another address between them, got one call each.
C28_Witness ==
    /\ Len(subscriptionList) = 3
    /\ Len(delivered.calls) = 2
    /\ delivered.calls[1].handler # delivered.calls[2].handler
    /\ subscriptionList[2].address # delivered.data.Destination

\* The entry is not the pair (address, handler).
OtherThan(s, address, handler) == ~(s.address = address /\ s.handler = handler)

EntryCount(address, handler) ==
    Cardinality({j \in EntriesFor(address) : subscriptionList[j].handler = handler})

\* The number of calls the run that has just returned made to `handler`.
CallCount(handler) ==
    Cardinality({i \in DOMAIN delivered.calls : delivered.calls[i].handler = handler})

\* C30: one unsubscribeFromAddress(a, h) leaves the pair fully
\* unsubscribed however often it was subscribed: no entry (a, h) is in
\* the list after it; and a handler is invoked for a validated
\* transaction once per entry it has for the destination, so twice while
\* the pair is subscribed twice and not at all once no entry remains.
C30_UnsubscribeRemovesEveryEntry ==
    /\ called.op = "unsubscribe" => EntryCount(called.address, called.handler) = 0
    /\ (Returned /\ delivered.data.validated) =>
          \A h \in Handlers :
              CallCount(h) = EntryCount(delivered.data.Destination, h)

\* One unsubscribe has removed a pair that was subscribed twice.
C30_Witness ==
    /\ called.op = "unsubscribe"
    /\ called.removed = 2

\* The transaction carries a redeem response: its first memo is a redeem
\* reference in binary format with data, its second a redeem response
\* with data.
CarriesRedeemResponse ==
    /\ Len(hookTx.Memos) = 2
    /\ hookTx.Memos[1].type = "REDEEM_REF" /\ hookTx.Memos[1].format = "BINARY"
    /\ hookTx.Memos[1].data # ""
    /\ hookTx.Memos[2].type = "REDEEM_RESP" /\ hookTx.Memos[2].data # ""

\* The rule that precedes every memo rule: a reward payment.
RewardPayment == hookTx.fromHook /\ hookTx.evr /\ hookTx.toHost

\* C31: a transaction that carries a redeem response decodes to a
\* RedeemError event with the reason of the JSON payload when the second
\* memo's format is JSON, and to a RedeemSuccess event with the raw payload
\* of the second memo for any other format; both carry the first memo's
\* data as the referenced redeem transaction hash. The rules are tried in
\* a fixed order and the first that matches wins: the reward rule, which
\* is tried before every memo rule, names the event where it matches.
C31_RedeemResponseDecoding ==
    (hookEvent # NoHookEvent /\ CarriesRedeemResponse) =>
        IF RewardPayment
        THEN hookEvent.name = "Reward"
        ELSE IF hookTx.Memos[2].format = "JSON"
        THEN hookTx.Memos[2].data \in {"{reason}", "{}"} =>
                /\ hookEvent.name = "RedeemError"
                /\ hookEvent.redeemTxHash = hookTx.Memos[1].data
                /\ hookEvent.reason =
                       (IF hookTx.Memos[2].data = "{reason}" THEN "reason" ELSE "undefined")
        ELSE /\ hookEvent.name = "RedeemSuccess"
             /\ hookEvent.redeemTxHash = hookTx.Memos[1].data
             /\ hookEvent.payload = hookTx.Memos[2].data

\* A redeem response in JSON format has been decoded to a RedeemError
\* with its reason.
C31_Witness ==
    /\ CarriesRedeemResponse
    /\ hookTx.Memos[2].format = "JSON"
    /\ hookEvent.name = "RedeemError"
    /\ hookEvent.reason = "reason"

\* The failures #submitWithRetry wrote to the console (host-client.js
\* 137): those of the attempts it retried, not the one it rethrew.
LoggedFailures ==
    IF rOutcome.kind = "throw" THEN Len(rErrors) - 1 ELSE Len(rErrors)

\* The lease call is over and its mint failed with an error other than
\* tecDUPLICATE, leaving no token.
MintFailed ==
    /\ leasePc = "done"
    /\ rOutcome.kind = "throw"
    /\ ~IsDuplicate(rOutcome.value)
    /\ ~leaseToken

\* C32: when the mint of the lease token fails with an error other than
\* tecDUPLICATE, mintLease and offerLease either throw to their caller or
\* a failure of the mint has at least been written to the console; the
\* call does not return as if the mint had succeeded.
C32_MintFailureNotSwallowed ==
    MintFailed => (leaseOutcome.kind = "throw" \/ LoggedFailures > 0)

\* The same for offerLease alone.
OfferLeaseSurfacesMintFailure ==
    (MintFailed /\ leaseOp = "offerLease") => leaseOutcome.kind = "throw"

\* The finality wait is in progress.
Waiting == sPc \in {"sleeping", "awaitIndex", "awaitTx"}

\* C33: the finality wait is bounded by the expiry index: once the
\* network's ledger index exceeds the transaction's LastLedgerSequence, a
\* wait in progress ends (with the validated outcome, the expiry error or
\* a query error), given that its sleeps end and its requests settle; and
\* the polls of one call are strictly sequential: a 'tx' poll is issued
\* only by the step that has just read the ledger index, never while
\* another poll of the call is pending.
C33_WaitEndsAfterExpiry ==
    /\ (Waiting /\ netLedger > sLastLedger) ~> (sPc = "done")
    /\ [][(sPc' = "awaitTx" /\ sPc # "awaitTx") => sPc = "awaitIndex"]_vars

\* A wait that has polled for the transaction without finding it is in
\* progress after the expiry index has passed.
C33_Witness ==
    /\ sPc = "sleeping"
    /\ "tx" \in sent
    /\ netLedger > sLastLedger

\* register has invoked buyURIToken.
BuyInvoked == regPc \in {"buying", "done"} /\ rCalls # <<>>

RegisterTimedOut ==
    regOutcome = [kind |-> "throw", error |-> "No sell offer found within timeout."]

\* C34: register submits buyURIToken only with an offer it has seen and
\* with the client's ledger index strictly above the index recorded when the
\* offer was seen, and the step that starts the buy finds it so; and a
\* register that has made OFFER_WAIT_TIMEOUT polls without seeing an offer
\* has thrown 'No sell offer found within timeout.' and never invoked the
\* buy, which is the only way that error is thrown.
C34_BuyOnlyInLaterLedger ==
    /\ [](BuyInvoked => sellOffer /\ ledgerIndex > offerLedgerIndex)
    /\ [][(rCalls = <<>> /\ rCalls' # <<>>)
            => (regPc = "buying" /\ sellOffer /\ ledgerIndex > offerLedgerIndex)]_vars
    /\ [](RegisterTimedOut =>
            attempts = OFFER_WAIT_TIMEOUT /\ ~sellOffer /\ rCalls = <<>>)
    /\ []((regPc = "done" /\ attempts = OFFER_WAIT_TIMEOUT) => RegisterTimedOut)
    /\ [](attempts <= OFFER_WAIT_TIMEOUT)

C34_Witness ==
    /\ regPc = "done"
    /\ regOutcome.kind = "return"
    /\ rCalls # <<>>
    /\ offerLedgerIndex = 2
    /\ ledgerIndex = 3

RegisterTimeoutReached == RegisterTimedOut /\ registryOffer

\* C35: a transaction's handlers are never called after the handlers of a
\* transaction that was delivered later: no listener run calls a handler
\* once a run that began after it has called one.
C35_DispatchInDeliveryOrder == ~(delivered.calls # <<>> /\ delivered.overtaken)

\* The primary loop (the fallback loop) of call s has not ended: it awaits a
\* connection attempt or its backoff delay.
PrimaryLoopRunning(s) == loopCalls[s].pPc \in {"connecting", "backoff"}

FallbackLoopRunning(s) == loopCalls[s].fPc \in {"connecting", "backoff"}

\* C36: at most one primary loop and at most one fallback loop are running
\* at any time.
C36_OneLoopOfEachKind ==
    /\ Cardinality({s \in LoopCalls : PrimaryLoopRunning(s)}) <= 1
    /\ Cardinality({s \in LoopCalls : FallbackLoopRunning(s)}) <= 1

\* C37: the fallback loop of an initial connect() attempts every listed
\* server, in list order, before it gives up: the loop throws only from an
\* attempt on the last server of the list, and an attempt on a server
\* other than the first follows one on the server before it.
C37_TriesEveryListedServer ==
    [][ /\ (loopCalls[1].fPc = "connecting" /\ loopCalls'[1].fPc = "threw")
            => loopCalls[1].fServer = NumListedServers
        /\ (loopCalls'[1].fPc = "connecting" /\ loopCalls'[1].fServer > 1)
            => loopCalls[1].fServer \in {loopCalls'[1].fServer - 1, loopCalls'[1].fServer}
      ]_vars

\* C38: once disconnect() has completed, and as long as connect() is not
\* called again (the disconnect flag stays set), no step sets the primary-
\* or the fallback-connected flag.
C38_NoConnectionAfterDisconnect ==
    [][ (dPc = "done" /\ isPermanentlyDisconnected /\ isPermanentlyDisconnected')
            => /\ isPrimaryServerConnected' => isPrimaryServerConnected
               /\ isFallbackServerConnected' => isFallbackServerConnected
      ]_vars

\* disconnect() has completed, every loop and every call of
\* #connectXrplClient has ended, and #client is a connected client with a
\* connected flag set.
ConnectedAfterDisconnect ==
    /\ dPc = "done"
    /\ isPermanentlyDisconnected
    /\ \A s \in Sessions :
          /\ sessions[s].pPc \in {"none", "done", "threw"}
          /\ sessions[s].fPc \in {"none", "done", "threw"}
          /\ sessions[s].wStage \in {"none", "done", "threw"}
    /\ \A c \in ClientObjects : ~xrplClients[c].swap
    /\ isPrimaryServerConnected \/ isFallbackServerConnected
    /\ client # NoClient
    /\ xrplClients[client].link = "connected"

\* In this step call s issues a request of its post-connect synchronisation
\* and the request fails at once, because #client is unset or its link is
\* closed: the ledger-index fetch after #waitForConnection or after the wait
\* in #acquireConnection, the address replay, or the ledger subscribe.
SyncIssuedOnDeadHandle(s) ==
    \/ /\ sessions[s].wWait
       /\ sessions'[s].wStage = "threw"
       /\ \/ sessions[s].wStage \in {"index", "sub"}
          \/ sessions[s].wStage = "conn" /\ ~isPermanentlyDisconnected
    \/ /\ ~sessions[s].wWait
       /\ sessions[s].wStage = "index"
       /\ sessions[s].wTarget # NoClient
       /\ sessions'[s].wStage = "threw"
    \/ /\ sessions[s].kind \in {"connect", "reconnect"}
       /\ sessions'[s].kind = sessions[s].kind
       /\ sessions[s].lPc \in {"none", "wait"}
       /\ sessions'[s].lPc = "done"

\* C39: the requests of the post-connect synchronisation are issued on the
\* client that has just connected: none is issued on an unset #client or on
\* one whose link is closed.
C39_SyncOnNewTransport ==
    [][\A s \in Sessions : ~SyncIssuedOnDeadHandle(s)]_vars

\* requestAudit has rejected because no check was found within the moment
\* window.
RejectedForWindow ==
    audSettled = [kind |-> "rejected", reason |-> "No checks found within moment window."]

\* requestAudit awaits nothing and no timer of it is pending.
AuditStopped == audPc = "stopped"

\* C40: once requestAudit has rejected because no check was found within
\* the moment window, or once a check has been cashed, the call has
\* stopped: no getChecks, getTrustLines, setTrustLine or cashCheck is in
\* flight and no timer is pending.
C40_StopsOnceSettled == (RejectedForWindow \/ cashed) => AuditStopped

\* Once a check has been cashed the call has stopped and the promise has
\* settled.
StopsOnceCashed == cashed => (AuditStopped /\ audSettled # NotSettled)

\* A check was cashed after requestAudit had rejected for the window.
CashedAfterWindowRejection == RejectedForWindow /\ cashed

====
